---- MODULE Spec2Model ----
(***************************************************************************)
(* A model of the compilation core of yarn-slinger:                        *)
(*   - the StringTableManager and Compilation::combine (compiler crate),   *)
(*   - the TypeCheckVisitor,                                               *)
(*   - the add_tracking_declarations compilation step,                     *)
(*   - the DialogueRunner of the bevy plugin and set_dialogue_programs.    *)
(* Strings whose inner structure matters (file names, node names, line     *)
(* ids) are sequences of one-character strings, so that formatting is      *)
(* concatenation and can be taken apart again.  Option<T> is a sequence of *)
(* length at most one: None is <<>> and Some(x) is <<x>>.                  *)
(***************************************************************************)
EXTENDS Integers, Sequences, FiniteSets, TLC

VARIABLES
    string_table,       \* StringTableManager.0 : HashMap<LineId, StringInfo>
    st_call,            \* the last call made on the string table, with its arguments
    st_ret,             \* what that call returned (Option<LineId>)
    combined,           \* Option<Compilation>: the result of Compilation::combine
    st_panicked,        \* TRUE once Compilation::combine has panicked
    \* TypeCheckVisitor
    diagnostics,            \* Vec<Diagnostic>
    new_declarations,       \* Vec<Declaration>
    deferred_types,         \* Vec<DeferredTypeDiagnostic>
    existing_declarations,  \* Vec<Declaration>
    current_node_name,      \* Option<String>
    source_file_name,       \* the path of the file, as its components
    types,                  \* HashMap<HashableInterval, Type>
    hints,                  \* HashMap<HashableInterval, Type>
    cursor,                 \* the number of visits made on the visitor
    tc_call,                \* the last call made on the visitor, with its argument
    tc_ret,                 \* what that call returned (Option<Type>)
    panicked,               \* TRUE once a visit has panicked
    \* CompilationIntermediate
    tracking_nodes,                 \* the names of the nodes to track
    known_variable_declarations,    \* Vec<Declaration>
    derived_variable_declarations,  \* Vec<Declaration>
    tracking_done,                  \* add_tracking_declarations has run
    \* The world of the bevy plugin
    dialogue_runners,               \* the DialogueRunner components, in the order of their spawn
    yarn_compilation,               \* Res<YarnCompilation>: its program, and is_changed()
    global_variable_storage,        \* Res<GlobalVariableStorage>
    global_text_provider,           \* Res<GlobalTextProvider>
    global_line_asset_provider,     \* Option<Res<GlobalLineAssetProvider>>
    dr_call,                        \* the last thing done to the world
    dr_panicked                     \* TRUE once set_dialogue_programs has panicked

st_vars == <<string_table, st_call, st_ret, combined, st_panicked>>

tc_vars == <<diagnostics, new_declarations, deferred_types,
             existing_declarations, current_node_name, source_file_name,
             types, hints, cursor, tc_call, tc_ret, panicked>>

tr_vars == <<tracking_nodes, known_variable_declarations,
             derived_variable_declarations, tracking_done>>

dr_vars == <<dialogue_runners, yarn_compilation, global_variable_storage,
             global_text_provider, global_line_asset_provider, dr_call, dr_panicked>>

vars == <<st_vars, tc_vars, tr_vars, dr_vars>>

None == <<>>
Some(x) == <<x>>
IsSome(o) == Len(o) = 1
IsNone(o) == Len(o) = 0
Unwrap(o) == o[1]

Range(s) == {s[i] : i \in DOMAIN s}

(***************************************************************************)
(* Bounds of the model.                                                    *)
(***************************************************************************)
\* The string table takes inserts and extends while it has fewer entries.
MaxTableSize == 3
\* Compilation::combine is given at most this many per-file compilations.
MaxCompilations == 2

(***************************************************************************)
(* Strings as character sequences.                                         *)
(***************************************************************************)
Digits == <<"0", "1", "2", "3", "4", "5", "6", "7", "8", "9">>

\* `{}` applied to a usize: its decimal digits, most significant first.
RECURSIVE Decimal(_)
Decimal(n) ==
    IF n < 10 THEN <<Digits[n + 1]>>
    ELSE Decimal(n \div 10) \o <<Digits[(n % 10) + 1]>>

FileNames == {<<"a">>, <<"b", ".", "y">>}
NodeNames == {<<"n">>, <<"m">>}

\* Explicit line ids, as written by an author in a #line: hashtag.  The
\* second one has the form of a generated id.
ExplicitLineIds ==
    { <<"l", "i", "n", "e", ":", "g">>,
      <<"l", "i", "n", "e", ":", "a", "-", "n", "-", "1">> }

\* The StringInfo values handed to insert.  text, line_number and metadata
\* follow the file and node, so that every field takes two values.
StringInfoOf(file, node, tag) ==
    [ text |-> IF node = <<"n">> THEN "Hello" ELSE "Bye",
      node_name |-> node,
      line_number |-> IF file = <<"a">> THEN 1 ELSE 2,
      file_name |-> file,
      is_implicit_tag |-> tag,
      metadata |-> IF node = <<"n">> THEN <<>> ELSE <<"meta">> ]

StringInfos ==
    { StringInfoOf(f, n, t) : f \in FileNames, n \in NodeNames, t \in BOOLEAN }

EmptyTable == [k \in {} |-> None]

(***************************************************************************)
(* StringTableManager                                                      *)
(***************************************************************************)
\* HashMap::insert: the new value replaces whatever the key held.
HashMapInsert(map, key, value) ==
    [k \in DOMAIN map \cup {key} |-> IF k = key THEN value ELSE map[k]]

\* HashMap::extend: every entry of other is inserted, other winning on a key
\* both hold.
HashMapExtend(map, other) ==
    [k \in DOMAIN map \cup DOMAIN other |->
        IF k \in DOMAIN other THEN other[k] ELSE map[k]]

\* self.len()
TableLen(table) == Cardinality(DOMAIN table)

\* The name without its extension: what precedes the last dot, a leading dot
\* not counting as one (Path::file_stem).
FileStem(name) ==
    LET dots == {i \in DOMAIN name : name[i] = "."}
        last == CHOOSE i \in dots : \A j \in dots : j <= i
    IN  IF dots = {} \/ last = 1 THEN name ELSE SubSeq(name, 1, last - 1)

\* Mutant: the ordinal counts from one.
GeneratedLineId_OneBased(file_name, node_name, len) ==
    <<"l", "i", "n", "e", ":">> \o file_name \o <<"-">> \o node_name
        \o <<"-">> \o Decimal(len + 1)

\* Mutant: the file name loses its extension.
GeneratedLineId_Stem(file_name, node_name, len) ==
    <<"l", "i", "n", "e", ":">> \o FileStem(file_name) \o <<"-">> \o node_name
        \o <<"-">> \o Decimal(len)

\* format!("line:{}-{}-{}", file_name, node_name, self.len())
GeneratedLineId(file_name, node_name, len) ==
    <<"l", "i", "n", "e", ":">> \o file_name \o <<"-">> \o node_name
        \o <<"-">> \o Decimal(len)

\* Mutant: with an explicit id the StringInfo is stored as the caller gave it.
InsertEntry_KeepTag(table, line_id, string_info) ==
    IF IsSome(line_id)
    THEN [ line_id |-> Unwrap(line_id), string_info |-> string_info ]
    ELSE [ line_id |-> GeneratedLineId(string_info.file_name,
                                       string_info.node_name,
                                       TableLen(table)),
           string_info |-> [string_info EXCEPT !.is_implicit_tag = TRUE] ]

\* The (line_id, string_info) pair insert stores.
InsertEntry(table, line_id, string_info) ==
    IF IsSome(line_id)
    THEN [ line_id |-> Unwrap(line_id),
           string_info |-> [string_info EXCEPT !.is_implicit_tag = FALSE] ]
    ELSE [ line_id |-> GeneratedLineId(string_info.file_name,
                                       string_info.node_name,
                                       TableLen(table)),
           string_info |-> [string_info EXCEPT !.is_implicit_tag = TRUE] ]

\* StringTableManager::insert: the table afterwards and the returned id.
insert(table, line_id, string_info) ==
    LET entry == InsertEntry(table, line_id, string_info)
    IN  [ table |-> HashMapInsert(table, entry.line_id, entry.string_info),
          line_id |-> entry.line_id ]

\* StringTableManager::extend
extend(table, other) == HashMapExtend(table, other)

\* StringTableManager::contains_implicit_string_tags: values().any(..)
contains_implicit_string_tags(table) ==
    \E k \in DOMAIN table : table[k].is_implicit_tag

StCall(op, line_id, string_info) ==
    [op |-> op, line_id |-> line_id, string_info |-> string_info, compilations |-> <<>>]

InitStringTable ==
    /\ string_table = EmptyTable
    /\ st_call = StCall("new", None, None)
    /\ st_ret = None
    /\ combined = None
    /\ st_panicked = FALSE

\* The manager is still owned by the pipeline: combine has not consumed it.
StOpen == IsNone(combined) /\ ~st_panicked

Insert ==
    /\ StOpen
    /\ TableLen(string_table) < MaxTableSize
    /\ \E line_id \in {None} \cup {Some(i) : i \in ExplicitLineIds},
          string_info \in StringInfos :
          LET r == insert(string_table, line_id, string_info)
          IN  /\ string_table' = r.table
              /\ st_ret' = Some(r.line_id)
              /\ st_call' = StCall("insert", line_id, Some(string_info))
    /\ UNCHANGED <<combined, st_panicked, tc_vars, tr_vars, dr_vars>>

\* The tables another StringTableManager can hold after one insert.
OtherInfos ==
    { StringInfoOf(<<"a">>, <<"n">>, FALSE),
      StringInfoOf(<<"b", ".", "y">>, <<"m">>, TRUE) }

OtherTables ==
    { insert(EmptyTable, line_id, string_info).table :
        line_id \in {None} \cup {Some(i) : i \in ExplicitLineIds},
        string_info \in OtherInfos }

Extend ==
    /\ StOpen
    /\ TableLen(string_table) < MaxTableSize
    /\ \E other \in OtherTables :
          /\ string_table' = extend(string_table, other)
          /\ st_call' = StCall("extend", None, None)
    /\ st_ret' = None
    /\ UNCHANGED <<combined, st_panicked, tc_vars, tr_vars, dr_vars>>

(***************************************************************************)
(* Compilation::combine                                                    *)
(***************************************************************************)
\* A Program is the sequence of its node names.  Program::combine joins the
\* programs in order; there is no program to return when it is given none.
ProgramCombine(programs) ==
    IF Len(programs) = 0 THEN None
    ELSE LET RECURSIVE Join(_)
             Join(i) == IF i > Len(programs) THEN <<>>
                        ELSE programs[i] \o Join(i + 1)
         IN  Some(Join(1))

Singleton(k, v) == [x \in {k} |-> v]

\* The per-file compilations handed to combine.  Declarations, warnings, tags
\* and debug infos are named by strings.  Their own string_table and
\* contains_implicit_string_tags fields are filled in as a per-file
\* compilation would have them.
FileCompilationA ==
    [ program |-> Some(<<"Start">>),
      string_table |-> insert(EmptyTable, None,
                              StringInfoOf(<<"a">>, <<"n">>, FALSE)).table,
      declarations |-> <<"decl_x">>,
      contains_implicit_string_tags |-> TRUE,
      file_tags |-> Singleton("a.yarn", <<"tag1">>),
      warnings |-> <<"warn1">>,
      debug_info |-> Singleton("Start", "debugA") ]

FileCompilationB ==
    [ program |-> Some(<<"End">>),
      string_table |-> EmptyTable,
      declarations |-> <<"decl_y", "decl_x">>,
      contains_implicit_string_tags |-> FALSE,
      file_tags |-> Singleton("a.yarn", <<"tag2">>),
      warnings |-> <<"warn2", "warn1">>,
      debug_info |-> [x \in {"Start", "End"} |-> "debugB"] ]

\* A compilation that was not a full compilation has no program.
FileCompilationNoProgram ==
    [ program |-> None,
      string_table |-> EmptyTable,
      declarations |-> <<>>,
      contains_implicit_string_tags |-> FALSE,
      file_tags |-> Singleton("b.yarn", <<>>),
      warnings |-> <<>>,
      debug_info |-> EmptyTable ]

FileCompilations ==
    {FileCompilationA, FileCompilationB, FileCompilationNoProgram}

CompilationSeqs ==
    UNION { [1..n -> FileCompilations] : n \in 0..MaxCompilations }

\* Mutant: on a file with tags in two compilations the first stays.
RECURSIVE CombineLoop_KeepFirst(_, _)
CombineLoop_KeepFirst(compilations, i) ==
    IF i = 0
    THEN [ programs |-> <<>>, declarations |-> <<>>, tags |-> EmptyTable,
           diagnostics |-> <<>>, node_debug_infos |-> EmptyTable ]
    ELSE LET acc == CombineLoop_KeepFirst(compilations, i - 1)
             compilation == compilations[i]
         IN  [ programs |-> Append(acc.programs, Unwrap(compilation.program)),
               declarations |-> acc.declarations \o compilation.declarations,
               tags |-> HashMapExtend(compilation.file_tags, acc.tags),
               diagnostics |-> acc.diagnostics \o compilation.warnings,
               node_debug_infos |->
                   HashMapExtend(acc.node_debug_infos, compilation.debug_info) ]

\* The accumulators of combine's loop after the first i compilations.
RECURSIVE CombineLoop(_, _)
CombineLoop(compilations, i) ==
    IF i = 0
    THEN [ programs |-> <<>>, declarations |-> <<>>, tags |-> EmptyTable,
           diagnostics |-> <<>>, node_debug_infos |-> EmptyTable ]
    ELSE LET acc == CombineLoop(compilations, i - 1)
             compilation == compilations[i]
         IN  [ programs |-> Append(acc.programs, Unwrap(compilation.program)),
               declarations |-> acc.declarations \o compilation.declarations,
               tags |-> HashMapExtend(acc.tags, compilation.file_tags),
               diagnostics |-> acc.diagnostics \o compilation.warnings,
               node_debug_infos |->
                   HashMapExtend(acc.node_debug_infos, compilation.debug_info) ]

\* compilation.program.unwrap() panics on the first compilation without a
\* program.
CombinePanics(compilations) ==
    \E i \in DOMAIN compilations : IsNone(compilations[i].program)

\* Mutant: the flag is gathered from the per-file compilations.
combine_FlagFromInputs(compilations, string_table_manager) ==
    LET acc == CombineLoop(compilations, Len(compilations))
    IN  [ program |-> ProgramCombine(acc.programs),
          string_table |-> string_table_manager,
          declarations |-> acc.declarations,
          debug_info |-> acc.node_debug_infos,
          contains_implicit_string_tags |->
              \E i \in DOMAIN compilations :
                  compilations[i].contains_implicit_string_tags,
          file_tags |-> acc.tags,
          warnings |-> acc.diagnostics ]

\* Compilation::combine, for compilations that all hold a program.
combine(compilations, string_table_manager) ==
    LET acc == CombineLoop(compilations, Len(compilations))
    IN  [ program |-> ProgramCombine(acc.programs),
          string_table |-> string_table_manager,
          declarations |-> acc.declarations,
          debug_info |-> acc.node_debug_infos,
          contains_implicit_string_tags |->
              contains_implicit_string_tags(string_table_manager),
          file_tags |-> acc.tags,
          warnings |-> acc.diagnostics ]

Combine ==
    /\ StOpen
    /\ \E compilations \in CompilationSeqs :
          /\ st_call' = [StCall("combine", None, None) EXCEPT !.compilations = compilations]
          /\ IF CombinePanics(compilations)
             THEN /\ st_panicked' = TRUE
                  /\ combined' = None
             ELSE /\ st_panicked' = FALSE
                  /\ combined' = Some(combine(compilations, string_table))
    /\ st_ret' = None
    /\ UNCHANGED <<string_table, tc_vars, tr_vars, dr_vars>>

(***************************************************************************)
(* Types, declarations and diagnostics.                                    *)
(* A Type is a record with a tag; only a Function has parameters (each an  *)
(* Option<Type>) and a return type (an Option<Type>).  Names, messages and *)
(* descriptions are strings.                                               *)
(***************************************************************************)
Type(tag) == [tag |-> tag, parameters |-> <<>>, return_type |-> None]

FunctionType(parameters, return_type) ==
    [tag |-> "Function", parameters |-> parameters, return_type |-> return_type]

TypeString == Type("String")
TypeNumber == Type("Number")
TypeBoolean == Type("Boolean")

\* Convertible::String(""), Convertible::Number(0.0), Convertible::Boolean(false)
Convertible(tag, value) == [tag |-> tag, value |-> value]

\* Declaration::default()
DeclarationDefault ==
    [ name |-> "",
      type |-> None,
      default_value |-> None,
      description |-> "",
      source_file_name |-> None,
      source_node_name |-> None,
      range |-> None,
      is_implicit |-> FALSE ]

\* Diagnostic::from_message(..).with_file_name(..).read_parser_rule_context(..):
\* the range is the token interval of the context.
Diagnostic(message, file_name, range) ==
    [message |-> message, file_name |-> file_name, range |-> range]

\* A path as text.
RECURSIVE PathText(_)
PathText(path) ==
    IF Len(path) = 0 THEN ""
    ELSE IF Len(path) = 1 THEN path[1]
    ELSE path[1] \o "/" \o PathText(Tail(path))

\* filename(path): the last component of the path when the path has one, the
\* path itself otherwise.
filename(path) ==
    IF Len(path) > 0 /\ path[Len(path)] # ".." THEN path[Len(path)]
    ELSE PathText(path)

\* format_cannot_determine_variable_type_error
format_cannot_determine_variable_type_error(name) ==
    "Can't figure out the type of variable " \o name
        \o " given its context. Specify its type with a <<declare>> statement."

\* Mutant: a string variable is given the default of a number.
default_value_for_type_NumberForString(expression_type) ==
    IF IsNone(expression_type) THEN None
    ELSE CASE Unwrap(expression_type).tag = "String" -> Some(Convertible("Number", "0"))
           [] Unwrap(expression_type).tag = "Number" -> Some(Convertible("Number", "0"))
           [] Unwrap(expression_type).tag = "Boolean" -> Some(Convertible("Boolean", "false"))
           [] OTHER -> None

\* default_value_for_type
default_value_for_type(expression_type) ==
    IF IsNone(expression_type) THEN None
    ELSE CASE Unwrap(expression_type).tag = "String" -> Some(Convertible("String", ""))
           [] Unwrap(expression_type).tag = "Number" -> Some(Convertible("Number", "0"))
           [] Unwrap(expression_type).tag = "Boolean" -> Some(Convertible("Boolean", "false"))
           [] OTHER -> None

\* TypeOptionFormat::format: the name of the type, "undefined" for None.
TypeFormat(type) ==
    IF IsNone(type) THEN "undefined" ELSE Unwrap(type).tag

\* Type::Any, the type every type is a subtype of.
TypeAny == Type("Any")

\* SubTypeOf for Option<Type>: a type is a subtype of itself and of Any; an
\* unbound type is a subtype of nothing and has no subtype.
is_sub_type_of(sub, parent) ==
    /\ IsSome(sub)
    /\ IsSome(parent)
    /\ (Unwrap(parent) = TypeAny \/ Unwrap(sub) = Unwrap(parent))

\* Type::EXPLICITLY_CONSTRUCTABLE filtered by the types whose method table
\* holds the operator.
TypesImplementingMethod(operation_type_name) ==
    CASE operation_type_name \in {"And", "Or", "Xor", "Not"} -> <<TypeBoolean>>
      [] operation_type_name = "Add" -> <<TypeNumber, TypeString>>
      [] operation_type_name \in {"Minus", "Multiply", "Divide", "Modulo",
                                  "UnaryMinus", "GreaterThan", "LessThan",
                                  "GreaterThanOrEqualTo", "LessThanOrEqualTo"}
            -> <<TypeNumber>>
      [] operation_type_name \in {"EqualTo", "NotEqualTo"}
            -> <<TypeBoolean, TypeNumber, TypeString>>
      [] OTHER -> <<>>

\* token_to_operator: the operator an operator token stands for.
token_to_operator(token) ==
    CASE token \in {"&&", "and"} -> Some("And")
      [] token \in {"||", "or"} -> Some("Or")
      [] token \in {"^", "xor"} -> Some("Xor")
      [] OTHER -> None

(***************************************************************************)
(* Parse trees.  A context is [kind, name, children]:                      *)
(*   ValueNumber, ValueString, ValueTrue, ValueFalse, ValueNull            *)
(*       an ExpValueContext over a literal (name is its text);             *)
(*   ValueVar   an ExpValueContext over a ValueVarContext over a           *)
(*              VariableContext (name is the VAR_ID, "" when the token is  *)
(*              missing);                                                  *)
(*   ValueFunc  an ExpValueContext over a ValueFuncContext (name is the    *)
(*              FUNC_ID, children are the argument expressions);           *)
(*   ExpParens, ExpAndOrXor, ExpAddSub, ExpEquality, ExpNot, ExpNegative   *)
(*              the expression contexts of those names (name is the        *)
(*              operator token);                                           *)
(*   Variable   a bare VariableContext.                                    *)
(* A context covers the tokens start .. start + TokLen - 1; every token    *)
(* is one character wide and the source is on line 1.                      *)
(***************************************************************************)
Ctx(kind, name, children) == [kind |-> kind, name |-> name, children |-> children]

ValueKinds == {"ValueNumber", "ValueString", "ValueTrue", "ValueFalse",
               "ValueNull", "ValueVar", "ValueFunc"}

RECURSIVE TokLen(_)
RECURSIVE TokLenSum(_, _)
TokLenSum(children, n) ==
    IF n = 0 THEN 0 ELSE TokLenSum(children, n - 1) + TokLen(children[n])

TokLen(ctx) ==
    CASE ctx.kind = "ValueFunc" ->
            3 + TokLenSum(ctx.children, Len(ctx.children))
              + (IF Len(ctx.children) > 1 THEN Len(ctx.children) - 1 ELSE 0)
      [] ctx.kind = "ExpParens" -> 2 + TokLen(ctx.children[1])
      [] ctx.kind \in {"ExpNot", "ExpNegative"} -> 1 + TokLen(ctx.children[1])
      [] ctx.kind \in {"ExpAndOrXor", "ExpAddSub", "ExpMultDivMod", "ExpEquality"} ->
            TokLen(ctx.children[1]) + 1 + TokLen(ctx.children[2])
      [] OTHER -> 1

\* The index of the first token of the i-th child of a context starting at
\* token start.
ChildStart(ctx, start, i) ==
    CASE ctx.kind = "ValueFunc" -> start + 2 + TokLenSum(ctx.children, i - 1) + (i - 1)
      [] ctx.kind \in {"ExpParens", "ExpNot", "ExpNegative"} -> start + 1
      [] OTHER -> IF i = 1 THEN start ELSE start + TokLen(ctx.children[1]) + 1

\* get_hashable_interval
get_hashable_interval(ctx, start) == <<start, start + TokLen(ctx) - 1>>

\* The text of a context (get_text).
RECURSIVE get_text(_)
RECURSIVE ArgumentsText(_, _)
ArgumentsText(children, i) ==
    IF i > Len(children) THEN ""
    ELSE get_text(children[i])
            \o (IF i < Len(children) THEN "," ELSE "")
            \o ArgumentsText(children, i + 1)

get_text(ctx) ==
    CASE ctx.kind = "ValueFunc" -> ctx.name \o "(" \o ArgumentsText(ctx.children, 1) \o ")"
      [] ctx.kind = "ExpParens" -> "(" \o get_text(ctx.children[1]) \o ")"
      [] ctx.kind \in {"ExpNot", "ExpNegative"} -> ctx.name \o get_text(ctx.children[1])
      [] ctx.kind \in {"ExpAndOrXor", "ExpAddSub", "ExpMultDivMod", "ExpEquality"} ->
            get_text(ctx.children[1]) \o ctx.name \o get_text(ctx.children[2])
      [] OTHER -> ctx.name

\* get_text_with_whitespace: the operands of a binary operator are set apart
\* by blanks in the sources of the model.
RECURSIVE get_text_with_whitespace(_)
get_text_with_whitespace(ctx) ==
    CASE ctx.kind \in {"ExpAndOrXor", "ExpAddSub", "ExpMultDivMod", "ExpEquality"} ->
            get_text_with_whitespace(ctx.children[1]) \o " " \o ctx.name \o " "
                \o get_text_with_whitespace(ctx.children[2])
      [] ctx.kind = "ExpParens" ->
            "(" \o get_text_with_whitespace(ctx.children[1]) \o ")"
      [] OTHER -> get_text(ctx)

(***************************************************************************)
(* TypeCheckVisitor.  A visit takes the visitor (the record of its fields) *)
(* and gives back the visitor afterwards, the value returned and whether   *)
(* the visit panicked; the visitor of a panicked visit is the visitor as   *)
(* it stood when the panic was raised.                                     *)
(***************************************************************************)
Ok(v, ret) == [v |-> v, ret |-> ret, panic |-> FALSE]
Panic(v) == [v |-> v, ret |-> None, panic |-> TRUE]

\* TypeCheckVisitor::declarations
declarations(v) == v.existing_declarations \o v.new_declarations

\* .into_iter().find(|decl| decl.name == name)
FindByName(decls, name) ==
    LET hits == {i \in DOMAIN decls : decls[i].name = name}
    IN  IF hits = {} THEN None
        ELSE Some(decls[CHOOSE i \in hits : \A j \in hits : i <= j])

\* TypeCheckVisitor::get_hint
get_hint(v, interval) ==
    IF interval \in DOMAIN v.hints THEN Some(v.hints[interval]) ELSE None

\* TypeCheckVisitor::set_hint
set_hint(v, interval, hint) ==
    IF IsNone(hint) THEN v
    ELSE [v EXCEPT !.hints = HashMapInsert(@, interval, Unwrap(hint))]

\* TypeCheckVisitor::get_type
get_type(v, interval) ==
    IF interval \in DOMAIN v.types THEN Some(v.types[interval]) ELSE None

\* TypeCheckVisitor::set_type
set_type(v, interval, type) ==
    IF IsNone(type) THEN v
    ELSE [v EXCEPT !.types = HashMapInsert(@, interval, Unwrap(type))]

PushDiagnostic(v, message, interval) ==
    [v EXCEPT !.diagnostics =
        Append(@, Diagnostic(message, v.source_file_name, interval))]

IsDeferred(v, name) ==
    \E i \in DOMAIN v.deferred_types : v.deferred_types[i].name = name

\* Mutant: a deferred diagnostic is added at every visit of an undeclared
\* variable.
visit_variable_AlwaysDefer(v, ctx, start) ==
    IF ctx.name = "" THEN Ok(v, None)
    ELSE LET declaration == FindByName(declarations(v), ctx.name)
         IN  IF IsSome(declaration) THEN Ok(v, Unwrap(declaration).type)
             ELSE Ok([v EXCEPT !.deferred_types =
                        Append(@, [ name |-> ctx.name,
                                    diagnostic |-> Diagnostic(
                                        format_cannot_determine_variable_type_error(ctx.name),
                                        v.source_file_name,
                                        get_hashable_interval(ctx, start)) ])],
                     None)

\* visit_variable
visit_variable(v, ctx, start) ==
    IF ctx.name = "" THEN Ok(v, None)
    ELSE LET declaration == FindByName(declarations(v), ctx.name)
         IN  IF IsSome(declaration) THEN Ok(v, Unwrap(declaration).type)
             ELSE IF IsDeferred(v, ctx.name) THEN Ok(v, None)
             ELSE Ok([v EXCEPT !.deferred_types =
                        Append(@, [ name |-> ctx.name,
                                    diagnostic |-> Diagnostic(
                                        format_cannot_determine_variable_type_error(ctx.name),
                                        v.source_file_name,
                                        get_hashable_interval(ctx, start)) ])],
                     None)

RECURSIVE visit(_, _, _)

\* Declaration::eq(other, epsilon): Ok(true) for equal declarations.
DeclarationEq(a, b) == a = b

\* DeclarationVecExt::position: the index of the first equal declaration.
position(decls, declaration) ==
    LET hits == {i \in DOMAIN decls : DeclarationEq(decls[i], declaration)}
    IN  IF hits = {} THEN None
        ELSE Some(CHOOSE i \in hits : \A j \in hits : i <= j)

\* DeclarationVecExt::find_remove
find_remove(decls, declaration) ==
    LET index == position(decls, declaration)
    IN  IF IsNone(index) THEN decls
        ELSE SubSeq(decls, 1, Unwrap(index) - 1)
                \o SubSeq(decls, Unwrap(index) + 1, Len(decls))

Position(line, character) == [line |-> line, character |-> character]

\* visit_valueFunc, up to the check of the parameters: the visitor and the
\* function type the call is checked against.
ResolveFunction(v, ctx, start) ==
    LET function_name == ctx.name
        function_declaration == FindByName(declarations(v), function_name)
        hint == get_hint(v, get_hashable_interval(ctx, start))
    IN  IF IsSome(function_declaration)
        THEN LET declaration == Unwrap(function_declaration)
                 function_type == Unwrap(declaration.type)
             IN  IF IsNone(function_type.return_type) /\ IsSome(hint)
                 THEN LET bound == [function_type EXCEPT !.return_type = hint]
                      IN  [ v |-> [v EXCEPT !.new_declarations =
                                     Append(find_remove(@, declaration),
                                            [declaration EXCEPT !.type = Some(bound)])],
                            function_type |-> bound ]
                 ELSE [v |-> v, function_type |-> function_type]
        ELSE LET function_type == FunctionType(<<>>, hint)
                 line == 1
                 column == start
                 function_declaration_new ==
                     [DeclarationDefault EXCEPT
                        !.type = Some(function_type),
                        !.name = function_name,
                        !.description =
                            "Implicit declaration of function at "
                                \o PathText(v.source_file_name) \o ":"
                                \o ToString(line) \o ":" \o ToString(column),
                        !.range = Some([ start |-> Position(line, column + 1),
                                         end |-> Position(line, column + 1 + 1) ]),
                        !.is_implicit = TRUE]
             IN  [ v |-> [v EXCEPT !.new_declarations =
                                Append(@, function_declaration_new)],
                   function_type |->
                       [function_type EXCEPT
                          !.parameters = [i \in 1..Len(ctx.children) |-> None]] ]

\* The result of a visit that went through set_type: self.set_type(ctx,
\* type) and then type.
Typed(visited, interval) ==
    IF visited.panic THEN visited
    ELSE Ok(set_type(visited.v, interval, visited.ret), visited.ret)

\* visit_valueFunc: the check of the i-th supplied parameter once it has
\* been visited.
ParameterChecked(visited, ctx, start, expected_parameter_type, i) ==
    LET supplied_type == visited.ret
        expected_type == IF IsNone(expected_parameter_type) THEN supplied_type
                         ELSE expected_parameter_type
    IN  IF visited.panic THEN [v |-> visited.v, panic |-> TRUE]
        ELSE IF ~is_sub_type_of(expected_type, supplied_type)
        THEN [ v |-> PushDiagnostic(visited.v,
                        ctx.name \o " parameter " \o ToString(i)
                            \o " expects a " \o TypeFormat(expected_type)
                            \o ", not a " \o TypeFormat(supplied_type),
                        get_hashable_interval(ctx, start)),
               panic |-> FALSE ]
        ELSE [v |-> visited.v, panic |-> FALSE]

\* visit_valueFunc: the body of the loop over the supplied parameters.
CheckParameter(before, ctx, start, expected_parameter_types, i) ==
    IF before.panic THEN before
    ELSE ParameterChecked(visit(before.v, ctx.children[i], ChildStart(ctx, start, i)),
                          ctx, start, expected_parameter_types[i], i)

\* visit_valueFunc: the loop over the supplied parameters, up to the i-th.
RECURSIVE CheckParameters(_, _, _, _, _)
CheckParameters(v, ctx, start, expected_parameter_types, i) ==
    IF i = 0 THEN [v |-> v, panic |-> FALSE]
    ELSE CheckParameter(CheckParameters(v, ctx, start, expected_parameter_types, i - 1),
                        ctx, start, expected_parameter_types, i)

\* visit_valueFunc: the end of the function, after the loop.
ParametersChecked(checked, return_type) ==
    IF checked.panic THEN Panic(checked.v) ELSE Ok(checked.v, return_type)

\* Mutant: the message of the wrong number of parameters always says
\* "parameters".
CheckCall_AlwaysPlural(resolved, ctx, start) ==
    LET function_type == resolved.function_type
        supplied == Len(ctx.children)
        expected == Len(function_type.parameters)
    IN  IF supplied # expected
        THEN Ok(PushDiagnostic(resolved.v,
                    "Function " \o ctx.name \o " expects " \o ToString(expected)
                        \o " parameters, but received " \o ToString(supplied),
                    get_hashable_interval(ctx, start)),
                function_type.return_type)
        ELSE ParametersChecked(
                CheckParameters(resolved.v, ctx, start, function_type.parameters, supplied),
                function_type.return_type)

\* visit_valueFunc: from the check of the number of parameters on.
CheckCall(resolved, ctx, start) ==
    LET function_type == resolved.function_type
        supplied == Len(ctx.children)
        expected == Len(function_type.parameters)
    IN  IF supplied # expected
        THEN Ok(PushDiagnostic(resolved.v,
                    "Function " \o ctx.name \o " expects " \o ToString(expected)
                        \o " " \o (IF expected = 1 THEN "parameter" ELSE "parameters")
                        \o ", but received " \o ToString(supplied),
                    get_hashable_interval(ctx, start)),
                function_type.return_type)
        ELSE ParametersChecked(
                CheckParameters(resolved.v, ctx, start, function_type.parameters, supplied),
                function_type.return_type)

\* visit_valueFunc
visit_valueFunc(v, ctx, start) ==
    LET function_declaration == FindByName(declarations(v), ctx.name)
    IN  IF /\ IsSome(function_declaration)
           /\ \/ IsNone(Unwrap(function_declaration).type)
              \/ Unwrap(Unwrap(function_declaration).type).tag # "Function"
        THEN Panic(v)
        ELSE CheckCall(ResolveFunction(v, ctx, start), ctx, start)

\* Mutant: the null literal has no type and is not reported.
visit_value_NullSilent(v, ctx, start) ==
    CASE ctx.kind = "ValueNull" -> Ok(v, None)
      [] ctx.kind = "ValueString" -> Ok(v, Some(TypeString))
      [] ctx.kind \in {"ValueTrue", "ValueFalse"} -> Ok(v, Some(TypeBoolean))
      [] ctx.kind = "ValueNumber" -> Ok(v, Some(TypeNumber))
      [] ctx.kind = "ValueVar" -> visit_variable(v, ctx, start)
      [] ctx.kind = "ValueFunc" -> visit_valueFunc(v, ctx, start)

\* visit_valueNull, visit_valueString, visit_valueTrue, visit_valueFalse,
\* visit_valueNumber, visit_valueVar and visit_valueFunc, by the kind of
\* the value.
visit_value(v, ctx, start) ==
    CASE ctx.kind = "ValueNull" ->
            Ok(PushDiagnostic(v,
                   "Null is not a permitted type in Yarn Spinner 2.0 and later",
                   get_hashable_interval(ctx, start)),
               None)
      [] ctx.kind = "ValueString" -> Ok(v, Some(TypeString))
      [] ctx.kind \in {"ValueTrue", "ValueFalse"} -> Ok(v, Some(TypeBoolean))
      [] ctx.kind = "ValueNumber" -> Ok(v, Some(TypeNumber))
      [] ctx.kind = "ValueVar" -> visit_variable(v, ctx, start)
      [] ctx.kind = "ValueFunc" -> visit_valueFunc(v, ctx, start)

\* visit_expValue
visit_expValue(v, ctx, start) ==
    LET interval == get_hashable_interval(ctx, start)
    IN  Typed(visit_value(set_hint(v, interval, get_hint(v, interval)), ctx, start),
              interval)

\* visit_expParens
visit_expParens(v, ctx, start) ==
    Typed(visit(v, ctx.children[1], ChildStart(ctx, start, 1)),
          get_hashable_interval(ctx, start))

\* The terms of an operation: the operands of the context, each with the
\* index of its first token.
Terms(ctx, start) ==
    [i \in 1..Len(ctx.children) |->
        [ctx |-> ctx.children[i], start |-> ChildStart(ctx, start, i)]]

\* check_operation: the body of the loop that visits the terms, once the
\* term has been visited.
TermVisited(before, visited) ==
    IF visited.panic
    THEN [before EXCEPT !.v = visited.v, !.panic = TRUE]
    ELSE IF IsSome(visited.ret)
    THEN [ v |-> visited.v,
           term_types |-> Append(before.term_types, Unwrap(visited.ret)),
           expression_type |->
               IF IsNone(before.expression_type) THEN visited.ret
               ELSE before.expression_type,
           panic |-> FALSE ]
    ELSE [before EXCEPT !.v = visited.v]

\* check_operation: the body of the loop that visits the terms.
VisitTerm(before, term) ==
    IF before.panic THEN before
    ELSE TermVisited(before, visit(before.v, term.ctx, term.start))

\* check_operation: the loop that visits the terms, up to the i-th.
RECURSIVE VisitTerms(_, _, _)
VisitTerms(v, terms, i) ==
    IF i = 0
    THEN [v |-> v, term_types |-> <<>>, expression_type |-> None, panic |-> FALSE]
    ELSE VisitTerm(VisitTerms(v, terms, i - 1), terms[i])

\* check_operation: a term visited for its effects alone.
Revisited(visited) == [v |-> visited.v, panic |-> visited.panic]

\* check_operation: the body of the loop that binds the return type of the
\* functions among the terms.
BindFunctionTerm(before, term, expression_type) ==
    LET id == term.ctx.name
        decls == before.v.new_declarations
        hits == {j \in DOMAIN decls :
                    /\ decls[j].name = id
                    /\ IsSome(decls[j].type)
                    /\ Unwrap(decls[j].type).tag = "Function"}
        first == CHOOSE j \in hits : \A k \in hits : j <= k
    IN  IF before.panic \/ term.ctx.kind # "ValueFunc" THEN before
        ELSE IF hits # {}
        THEN IF IsSome(Unwrap(decls[first].type).return_type) THEN before
             ELSE [before EXCEPT !.v.new_declarations[first].type =
                      Some([Unwrap(@) EXCEPT !.return_type = expression_type])]
        ELSE Revisited(visit(before.v, term.ctx, term.start))

\* check_operation: the loop that binds the return type of the functions
\* among the terms, up to the i-th term.
RECURSIVE BindFunctionTerms(_, _, _, _)
BindFunctionTerms(v, terms, i, expression_type) ==
    IF i = 0 THEN [v |-> v, panic |-> FALSE]
    ELSE BindFunctionTerm(BindFunctionTerms(v, terms, i - 1, expression_type),
                          terms[i], expression_type)

\* check_operation: the variable contexts among the terms, the variable
\* values first and the variable names after them.
VariableContexts(terms) ==
    LET AsVariable(term) ==
            [ name |-> term.ctx.name,
              start |-> term.start,
              interval |-> get_hashable_interval(term.ctx, term.start) ]
        values == SelectSeq(terms, LAMBDA term : term.ctx.kind = "ValueVar")
        names == SelectSeq(terms, LAMBDA term : term.ctx.kind = "Variable")
    IN  [i \in 1..Len(values) |-> AsVariable(values[i])]
            \o [i \in 1..Len(names) |-> AsVariable(names[i])]

IntervalLess(a, b) == a[1] < b[1] \/ (a[1] = b[1] /\ a[2] < b[2])

\* sort_by_key(get_hashable_interval), a stable sort.
RECURSIVE sort_by_key(_)
sort_by_key(contexts) ==
    IF Len(contexts) <= 1 THEN contexts
    ELSE LET sorted == sort_by_key(SubSeq(contexts, 1, Len(contexts) - 1))
             last == contexts[Len(contexts)]
             k == Cardinality({j \in DOMAIN sorted :
                                 ~IntervalLess(last.interval, sorted[j].interval)})
         IN  SubSeq(sorted, 1, k) \o <<last>> \o SubSeq(sorted, k + 1, Len(sorted))

\* dedup_by_key(get_hashable_interval): of neighbours with the same interval
\* the first stays.
RECURSIVE dedup_by_key(_)
dedup_by_key(contexts) ==
    IF Len(contexts) <= 1 THEN contexts
    ELSE LET front == dedup_by_key(SubSeq(contexts, 1, Len(contexts) - 1))
             last == contexts[Len(contexts)]
         IN  IF front[Len(front)].interval = last.interval THEN front
             ELSE Append(front, last)

\* Mutant: the declared variables are taken for undefined too.
UndefinedVariableContexts_All(v, terms) ==
    LET variable_contexts == VariableContexts(terms)
    IN  [ panic |-> /\ declarations(v) # <<>>
                    /\ \E i \in DOMAIN variable_contexts : variable_contexts[i].name = "",
          contexts |-> dedup_by_key(sort_by_key(variable_contexts)) ]

\* check_operation: the variable contexts without a declaration.  The
\* filter unwraps the VAR_ID of a context once there is a declaration to
\* compare it with.
UndefinedVariableContexts(v, terms) ==
    LET variable_contexts == VariableContexts(terms)
        Declared(name) ==
            \E i \in DOMAIN declarations(v) : declarations(v)[i].name = name
    IN  [ panic |-> /\ declarations(v) # <<>>
                    /\ \E i \in DOMAIN variable_contexts : variable_contexts[i].name = "",
          contexts |-> dedup_by_key(sort_by_key(
                          SelectSeq(variable_contexts,
                                    LAMBDA c : ~Declared(c.name)))) ]

\* check_operation: the loop that declares the undefined variables, up to
\* the i-th.
RECURSIVE DeclareUndefined(_, _, _, _)
DeclareUndefined(v, contexts, i, expression_type) ==
    IF i = 0 THEN [v |-> v, panic |-> FALSE]
    ELSE LET before == DeclareUndefined(v, contexts, i - 1, expression_type)
             context == contexts[i]
             var_name == context.name
             default_value == default_value_for_type(expression_type)
             file_name == filename(before.v.source_file_name)
             node == IF IsSome(before.v.current_node_name)
                     THEN ", node " \o Unwrap(before.v.current_node_name)
                     ELSE ""
             decl == [DeclarationDefault EXCEPT
                        !.name = var_name,
                        !.description = "Implicitly declared in " \o file_name \o node,
                        !.type = expression_type,
                        !.default_value = Some(Unwrap(default_value)),
                        !.source_file_name = Some(before.v.source_file_name),
                        !.source_node_name = before.v.current_node_name,
                        !.range = Some([ start |-> Position(0, context.start),
                                         end |-> Position(0, context.start + Len(var_name)) ]),
                        !.is_implicit = TRUE]
         IN  IF before.panic THEN before
             ELSE IF var_name = "" THEN [before EXCEPT !.panic = TRUE]
             ELSE IF IsSome(default_value)
             THEN [before EXCEPT !.v.new_declarations = Append(@, decl)]
             ELSE [before EXCEPT !.v =
                      PushDiagnostic(@, format_cannot_determine_variable_type_error(var_name),
                                     context.interval)]

\* check_operation: the declarations of the undefined variables and the
\* end of the function, which is todo!().
DeclareVariables(v, undefined, expression_type) ==
    IF undefined.panic THEN Panic(v)
    ELSE Panic(DeclareUndefined(v, undefined.contexts, Len(undefined.contexts),
                                expression_type).v)

\* check_operation: after the binding of the functions.
FunctionsBound(bound, terms, expression_type) ==
    IF bound.panic THEN Panic(bound.v)
    ELSE DeclareVariables(bound.v, UndefinedVariableContexts(bound.v, terms),
                          expression_type)

\* Mutant: a single permitted type is taken whatever the terms gave.
DetermineType_PermittedFirst(expression_type, operation_type, permitted_types) ==
    LET permitted == IF Len(permitted_types) = 1
                     THEN Some(permitted_types[1])
                     ELSE expression_type
        types_implementing_method == TypesImplementingMethod(Unwrap(operation_type))
    IN  IF IsSome(permitted) \/ IsNone(operation_type)
        THEN [proceed |-> TRUE, expression_type |-> permitted, candidates |-> <<>>]
        ELSE IF Len(types_implementing_method) = 1
        THEN [ proceed |-> TRUE,
               expression_type |-> Some(types_implementing_method[1]),
               candidates |-> <<>> ]
        ELSE [ proceed |-> FALSE,
               expression_type |-> None,
               candidates |-> types_implementing_method ]

\* check_operation: the type of the expression, from the type of the terms,
\* the permitted types and the types that implement the operation; proceed
\* is false where the function returns for want of a type.
DetermineType(expression_type, operation_type, permitted_types) ==
    LET permitted == IF Len(permitted_types) = 1 /\ IsNone(expression_type)
                     THEN Some(permitted_types[1])
                     ELSE expression_type
        types_implementing_method == TypesImplementingMethod(Unwrap(operation_type))
    IN  IF IsSome(permitted) \/ IsNone(operation_type)
        THEN [proceed |-> TRUE, expression_type |-> permitted, candidates |-> <<>>]
        ELSE IF Len(types_implementing_method) = 1
        THEN [ proceed |-> TRUE,
               expression_type |-> Some(types_implementing_method[1]),
               candidates |-> <<>> ]
        ELSE [ proceed |-> FALSE,
               expression_type |-> None,
               candidates |-> types_implementing_method ]

\* join(", or ") over the names of the types.
RECURSIVE TypeNames(_)
TypeNames(candidates) ==
    IF Len(candidates) = 1 THEN candidates[1].tag
    ELSE candidates[1].tag \o ", or " \o TypeNames(Tail(candidates))

\* check_operation: the message of the operation whose type is not
\* determined.
UndeterminedMessage(context, candidates) ==
    IF Len(candidates) > 1
    THEN "Type of expression \"" \o get_text_with_whitespace(context)
            \o "\" can't be determined without more context (the compiler thinks it could be "
            \o TypeNames(candidates)
            \o "). Use a type cast on at least one of the terms (e.g. the string(), number(), bool() functions)"
    ELSE "Type of expression \"" \o get_text_with_whitespace(context)
            \o "\" can't be determined without more context. Use a type cast on at least one of the terms (e.g. the string(), number(), bool() functions)"

\* Mutant: where several types implement the operation the first of them
\* is taken.
TypeDetermined_FirstCandidate(v, determined, context, start, terms) ==
    IF determined.proceed
    THEN FunctionsBound(
            BindFunctionTerms(v, terms, Len(terms), determined.expression_type),
            terms, determined.expression_type)
    ELSE IF Len(determined.candidates) > 1
    THEN FunctionsBound(
            BindFunctionTerms(v, terms, Len(terms), Some(determined.candidates[1])),
            terms, Some(determined.candidates[1]))
    ELSE Ok(PushDiagnostic(v, UndeterminedMessage(context, determined.candidates),
                           get_hashable_interval(context, start)),
            None)

\* check_operation: from the determination of the type on.
TypeDetermined(v, determined, context, start, terms) ==
    IF determined.proceed
    THEN FunctionsBound(
            BindFunctionTerms(v, terms, Len(terms), determined.expression_type),
            terms, determined.expression_type)
    ELSE Ok(PushDiagnostic(v, UndeterminedMessage(context, determined.candidates),
                           get_hashable_interval(context, start)),
            None)

\* check_operation: after the visit of the terms.
TermsVisited(visited, context, start, terms, operation_type, permitted_types) ==
    IF visited.panic THEN Panic(visited.v)
    ELSE TypeDetermined(visited.v,
                        DetermineType(visited.expression_type, operation_type,
                                      permitted_types),
                        context, start, terms)

\* check_operation
check_operation(v, context, start, terms, operation_type, permitted_types) ==
    TermsVisited(VisitTerms(v, terms, Len(terms)),
                 context, start, terms, operation_type, permitted_types)

\* visit_expAndOrXor
visit_expAndOrXor(v, ctx, start) ==
    IF IsNone(token_to_operator(ctx.name)) THEN Panic(v)
    ELSE Typed(check_operation(v, ctx, start, Terms(ctx, start),
                               token_to_operator(ctx.name), <<>>),
               get_hashable_interval(ctx, start))

\* visit_set_statement: todo!()
visit_set_statement(v, ctx, start) == Panic(v)

\* visit_expAddSub: todo!()
visit_expAddSub(v, ctx, start) == Panic(v)

\* The visit of a context, by its kind; the visitors of the other
\* expressions and of the statements are todo!().
visit(v, ctx, start) ==
    CASE ctx.kind \in ValueKinds -> visit_expValue(v, ctx, start)
      [] ctx.kind = "ExpParens" -> visit_expParens(v, ctx, start)
      [] ctx.kind = "ExpAndOrXor" -> visit_expAndOrXor(v, ctx, start)
      [] ctx.kind = "Variable" -> visit_variable(v, ctx, start)
      [] ctx.kind = "SetStatement" -> visit_set_statement(v, ctx, start)
      [] ctx.kind = "ExpAddSub" -> visit_expAddSub(v, ctx, start)
      [] OTHER -> Panic(v)

(***************************************************************************)
(* The visitor at work.  The file a.yarn of directory dir is visited node  *)
(* by node; the cursor counts the visits made, and the k-th visit reads    *)
(* the tokens from k * NodeSpan + 1 on.                                    *)
(***************************************************************************)
MaxVisits == 2
NodeSpan == 12

\* The fields of the visitor.
Visitor ==
    [ diagnostics |-> diagnostics,
      new_declarations |-> new_declarations,
      deferred_types |-> deferred_types,
      existing_declarations |-> existing_declarations,
      current_node_name |-> current_node_name,
      source_file_name |-> source_file_name,
      types |-> types,
      hints |-> hints ]

EmptyMap == [interval \in {} |-> TypeNumber]

\* A declaration of a <<declare>> statement or of the library.
Declared(name, type, default_value) ==
    [DeclarationDefault EXCEPT !.name = name, !.type = Some(type),
                               !.default_value = default_value]

ExistingDeclarationSets ==
    { <<>>,
      << Declared("$b", TypeBoolean, Some(Convertible("Boolean", "false"))),
         Declared("f", FunctionType(<<Some(TypeNumber)>>, Some(TypeBoolean)), None),
         Declared("p", FunctionType(<<Some(TypeAny)>>, Some(TypeString)), None) >>,
      << Declared("g", FunctionType(<<>>, None), None),
         Declared("$fv", FunctionType(<<>>, Some(TypeNumber)), None),
         Declared("k", FunctionType(<<None>>, Some(TypeNumber)), None) >> }

\* TypeCheckVisitor::new
InitVisitor ==
    /\ existing_declarations \in ExistingDeclarationSets
    /\ source_file_name = <<"dir", "a.yarn">>
    /\ diagnostics = <<>>
    /\ new_declarations = <<>>
    /\ deferred_types = <<>>
    /\ current_node_name = None
    /\ types = EmptyMap
    /\ hints = EmptyMap
    /\ cursor = 0
    /\ tc_call = [op |-> "new", input |-> <<>>]
    /\ tc_ret = None
    /\ panicked = FALSE

Value(kind, name) == Ctx(kind, name, <<>>)
Var(name) == Value("ValueVar", name)
Call(name, arguments) == Ctx("ValueFunc", name, arguments)
AndOrXor(left, op, right) == Ctx("ExpAndOrXor", op, <<left, right>>)

\* The expressions of the bodies.
BodyExpressions ==
    { Var("$x"),
      Var("$b"),
      Value("ValueNull", "null"),
      Call("f", <<Value("ValueString", "s")>>),
      Call("h", <<Value("ValueNumber", "1"), Var("$x")>>),
      Call("g", <<>>),
      Ctx("ExpParens", "", <<Var("$y")>>),
      AndOrXor(Var("$x"), "&&", Var("$x")),
      AndOrXor(Value("ValueString", "s"), "or", Var("$x")),
      AndOrXor(Var("$x"), "&&", Value("ValueTrue", "true")),
      AndOrXor(Call("g", <<>>), "^", Var("$b")),
      AndOrXor(Value("ValueTrue", "true"), "&&", Value("ValueFalse", "false")),
      Ctx("ExpNot", "!", <<Var("$b")>>),
      Ctx("SetStatement", "set",
          << Ctx("Variable", "$x", <<>>),
             Ctx("ExpAddSub", "+", <<Value("ValueNumber", "1"), Value("ValueNumber", "2")>>) >>) }

Bodies ==
    {<<>>} \cup {<<e>> : e \in BodyExpressions}
           \cup {<<Var("$x"), e>> : e \in BodyExpressions}

\* A node: the value of its title header when it has one, and its body
\* when it has one.
Nodes == [title : {None, Some("Start")}, body : {None} \cup {Some(b) : b \in Bodies}]

\* The visit of a body: its expressions one after the other.
VisitNext(before, expression, at) ==
    IF before.panic THEN before ELSE visit(before.v, expression, at)

RECURSIVE VisitBody(_, _, _, _)
VisitBody(v, body, start, i) ==
    IF i = 0 THEN Ok(v, None)
    ELSE VisitNext(VisitBody(v, body, start, i - 1), body[i],
                   start + TokLenSum(body, i - 1) + (i - 1))

\* visit_node: the end of the function, after the visit of the body.
BodyVisited(visited) ==
    IF visited.panic THEN visited ELSE Ok(visited.v, None)

\* visit_node: the title of the node.
Titled(v, node) ==
    IF IsSome(node.title) THEN [v EXCEPT !.current_node_name = node.title] ELSE v

\* visit_node
visit_node(v, node, start) ==
    IF IsNone(node.body) THEN Ok(Titled(v, node), None)
    ELSE BodyVisited(VisitBody(Titled(v, node), Unwrap(node.body), start,
                               Len(Unwrap(node.body))))


\* The visitor after a visit with result r.
Visited(op, input, r) ==
    /\ diagnostics' = r.v.diagnostics
    /\ new_declarations' = r.v.new_declarations
    /\ deferred_types' = r.v.deferred_types
    /\ existing_declarations' = r.v.existing_declarations
    /\ current_node_name' = r.v.current_node_name
    /\ source_file_name' = r.v.source_file_name
    /\ types' = r.v.types
    /\ hints' = r.v.hints
    /\ cursor' = cursor + 1
    /\ tc_call' = [op |-> op, input |-> <<input>>]
    /\ tc_ret' = r.ret
    /\ panicked' = r.panic

VisitorOpen == ~panicked /\ cursor < MaxVisits

Start == cursor * NodeSpan + 1

VisitNode ==
    /\ VisitorOpen
    /\ \E node \in Nodes :
          Visited("visit_node", node, visit_node(Visitor, node, Start))
    /\ UNCHANGED <<st_vars, tr_vars, dr_vars>>

\* The variable of a <<declare>> statement, of a name or with the VAR_ID
\* missing.
VariableContexts_Declare == {Ctx("Variable", name, <<>>) : name \in {"$x", "$b", "$fv", ""}}

VisitVariable ==
    /\ VisitorOpen
    /\ \E ctx \in VariableContexts_Declare :
          Visited("visit_variable", ctx, visit_variable(Visitor, ctx, Start))
    /\ UNCHANGED <<st_vars, tr_vars, dr_vars>>

\* The literals of the sources.
LiteralContexts ==
    { Value("ValueNumber", "1"), Value("ValueString", "s"), Value("ValueTrue", "true"),
      Value("ValueFalse", "false"), Value("ValueNull", "null") }

\* The visit of a literal.
VisitValue ==
    /\ VisitorOpen
    /\ \E ctx \in LiteralContexts :
          Visited("visit_value", ctx, visit_value(Visitor, ctx, Start))
    /\ UNCHANGED <<st_vars, tr_vars, dr_vars>>

\* The calls of check_operation for the operators other than and, or, xor.
OperationCalls ==
    { [ context |-> Ctx("ExpAddSub", "+", <<Var("$x"), Var("$y")>>),
        operation_type |-> Some("Add"),
        permitted_types |-> <<TypeNumber, TypeString>> ],
      [ context |-> Ctx("ExpEquality", "==", <<Var("$x"), Var("$y")>>),
        operation_type |-> None,
        permitted_types |-> <<>> ],
      [ context |-> Ctx("ExpEquality", "==", <<Var("$fv"), Var("$x")>>),
        operation_type |-> None,
        permitted_types |-> <<>> ],
      [ context |-> Ctx("ExpNegative", "-", <<Var("$x")>>),
        operation_type |-> Some("UnaryMinus"),
        permitted_types |-> <<TypeNumber>> ],
      [ context |-> Ctx("ExpAddSub", "+", <<Value("ValueString", "s"), Var("$x")>>),
        operation_type |-> Some("Add"),
        permitted_types |-> <<TypeNumber, TypeString>> ],
      [ context |-> Ctx("ExpMultDivMod", "*", <<Value("ValueString", "s"), Var("$x")>>),
        operation_type |-> Some("Multiply"),
        permitted_types |-> <<TypeNumber>> ],
      [ context |-> Ctx("ExpAndOrXor", "&&", <<Var("$x"), Var("$y")>>),
        operation_type |-> Some("And"),
        permitted_types |-> <<>> ],
      [ context |-> AndOrXor(Value("ValueTrue", "true"), "&&", Value("ValueFalse", "false")),
        operation_type |-> Some("And"),
        permitted_types |-> <<>> ],
      [ context |-> Ctx("ExpAddSub", "+", <<Value("ValueNumber", "1"), Value("ValueString", "s")>>),
        operation_type |-> Some("Add"),
        permitted_types |-> <<TypeNumber, TypeString>> ],
      [ context |-> Ctx("ExpAddSub", "+", <<Call("f", <<>>), Value("ValueNumber", "1")>>),
        operation_type |-> Some("Add"),
        permitted_types |-> <<TypeNumber, TypeString>> ],
      [ context |-> Ctx("ExpEquality", "==", <<Var("$x"), Value("ValueNumber", "1")>>),
        operation_type |-> Some("EqualTo"),
        permitted_types |-> <<>> ],
      [ context |-> Ctx("ExpEquality", "==", <<Var("$x"), Var("$b")>>),
        operation_type |-> Some("EqualTo"),
        permitted_types |-> <<>> ],
      [ context |-> Ctx("ExpEquality", "==", <<Var("$x"), Call("h", <<>>)>>),
        operation_type |-> Some("None"),
        permitted_types |-> <<>> ],
      [ context |-> Ctx("ExpAddSub", "+", <<Call("my_func", <<>>), Value("ValueNumber", "1")>>),
        operation_type |-> Some("Add"),
        permitted_types |-> <<TypeNumber, TypeString>> ],
      [ context |-> Ctx("ExpAddSub", "+", <<Call("g", <<>>), Value("ValueNumber", "1")>>),
        operation_type |-> Some("Add"),
        permitted_types |-> <<TypeNumber, TypeString>> ],
      [ context |-> Ctx("ExpAddSub", "+", <<Value("ValueString", "s"), Call("h", <<>>)>>),
        operation_type |-> Some("Add"),
        permitted_types |-> <<TypeNumber, TypeString>> ] }

CheckOperation ==
    /\ VisitorOpen
    /\ \E call \in OperationCalls :
          Visited("check_operation", call,
                  check_operation(Visitor, call.context, Start,
                                  Terms(call.context, Start),
                                  call.operation_type, call.permitted_types))
    /\ UNCHANGED <<st_vars, tr_vars, dr_vars>>

\* The calls of functions: of h, which has no declaration, of f, g, k and
\* p, which are declared in some files, with the right and the wrong number
\* of arguments.
CallContexts ==
    { Call("h", <<>>),
      Call("h", <<Value("ValueNumber", "1")>>),
      Call("h", <<Value("ValueNumber", "1"), Var("$x")>>),
      Call("f", <<Value("ValueNumber", "1")>>),
      Call("f", <<Value("ValueString", "s")>>),
      Call("f", <<Ctx("ExpNot", "!", <<Var("$b")>>), Value("ValueNumber", "1")>>),
      Call("g", <<>>),
      Call("p", <<Value("ValueNumber", "1")>>),
      Call("k", <<Value("ValueNumber", "1")>>),
      Call("k", <<Value("ValueString", "s")>>) }

\* The hint the visitor of the enclosing statement has set for the call,
\* when it has set one.
CallHints == {None, Some(TypeNumber)}

\* The visit of a call, after set_hint(ctx, hint) by the caller.
VisitValueFunc ==
    /\ VisitorOpen
    /\ \E ctx \in CallContexts, hint \in CallHints :
          Visited("visit_valueFunc", [ctx |-> ctx, hint |-> hint],
                  visit(set_hint(Visitor, get_hashable_interval(ctx, Start), hint),
                        ctx, Start))
    /\ UNCHANGED <<st_vars, tr_vars, dr_vars>>

(***************************************************************************)
(* add_tracking_declarations on the intermediate state of a compilation.   *)
(***************************************************************************)
\* Library::generate_unique_visited_variable_for_node
generate_unique_visited_variable_for_node(node) == "$Yarn.Internal.Visiting." \o node

\* Declaration::new(name, type)
DeclarationNew(name, type) ==
    [DeclarationDefault EXCEPT !.name = name, !.type = Some(type)]

\* The declaration of the variable that tracks the visits of a node.
TrackingDeclaration(node) ==
    [DeclarationNew(generate_unique_visited_variable_for_node(node), TypeNumber)
        EXCEPT !.default_value = Some(Convertible("Number", "0")),
               !.description =
                   "The generated variable for tracking visits of node " \o node]

\* The orders in which a HashSet may give its elements.
IterationOrders(set) ==
    {order \in [1..Cardinality(set) -> set] :
        \A i, j \in DOMAIN order : i # j => order[i] # order[j]}

\* Mutant: the declarations are appended to the known declarations only.
add_tracking_declarations_KnownOnly(state, order) ==
    LET tracking_declarations == [i \in DOMAIN order |-> TrackingDeclaration(order[i])]
    IN  [state EXCEPT
            !.known_variable_declarations = @ \o tracking_declarations]

\* add_tracking_declarations, with the order in which tracking_nodes gives
\* the nodes.
add_tracking_declarations(state, order) ==
    LET tracking_declarations == [i \in DOMAIN order |-> TrackingDeclaration(order[i])]
    IN  [state EXCEPT
            !.known_variable_declarations = @ \o tracking_declarations,
            !.derived_variable_declarations = @ \o tracking_declarations]

\* The intermediate state of the compilation.
CompilationIntermediate ==
    [ tracking_nodes |-> tracking_nodes,
      known_variable_declarations |-> known_variable_declarations,
      derived_variable_declarations |-> derived_variable_declarations ]

TrackedNodeNames == {"Start", "Shop", "End"}

Gold == [Declared("$gold", TypeNumber, Some(Convertible("Number", "0")))
            EXCEPT !.is_implicit = TRUE]
Met == [Declared("$met", TypeBoolean, Some(Convertible("Boolean", "false")))
            EXCEPT !.is_implicit = TRUE]
Name == Declared("$name", TypeString, Some(Convertible("String", "")))

DerivedDeclarationSets == { <<>>, <<Gold>>, <<Gold, Met>> }

KnownDeclarationSets == { <<>>, <<Name>> }

\* The state the earlier steps of the compilation hand over: the derived
\* declarations are known declarations too.
InitTracking ==
    /\ tracking_nodes \in SUBSET TrackedNodeNames
    /\ derived_variable_declarations \in DerivedDeclarationSets
    /\ \E known \in KnownDeclarationSets :
          known_variable_declarations = known \o derived_variable_declarations
    /\ tracking_done = FALSE

\* The state handed over by a compilation with a single node to track.
InitTrackingOne ==
    /\ tracking_nodes = {"Start"}
    /\ derived_variable_declarations = <<>>
    /\ known_variable_declarations = <<Name>>
    /\ tracking_done = FALSE

\* The step runs once in a compilation.
AddTrackingDeclarations ==
    /\ ~tracking_done
    /\ \E order \in IterationOrders(tracking_nodes) :
          LET state == add_tracking_declarations(CompilationIntermediate, order)
          IN  /\ tracking_nodes' = state.tracking_nodes
              /\ known_variable_declarations' = state.known_variable_declarations
              /\ derived_variable_declarations' = state.derived_variable_declarations
    /\ tracking_done' = TRUE
    /\ UNCHANGED <<st_vars, tc_vars, dr_vars>>

(***************************************************************************)
(* The DialogueRunner of the bevy plugin.  A variable storage, a text      *)
(* provider and a line asset provider are named by a string: a shallow     *)
(* clone is another handle on the same store, and has the name of the      *)
(* store.  A Dialogue is the record of its variable storage, its text      *)
(* provider and its program.                                               *)
(***************************************************************************)
\* At most this many DialogueRunners are spawned.
MaxRunners == 2

\* clone_shallow: a handle on the same store.
clone_shallow(handle) == handle

\* Dialogue::new: a dialogue without a program.
DialogueNew(variable_storage, text_provider) ==
    [ variable_storage |-> variable_storage,
      text_provider |-> text_provider,
      program |-> None ]

\* Dialogue::replace_program
replace_program(dialogue, program) == [dialogue EXCEPT !.program = Some(program)]

\* DialogueRunner::new
DialogueRunnerNew ==
    [ dialogue |-> None,
      variable_storage_override |-> None,
      text_provider_override |-> None,
      line_asset_provider_override |-> None ]

\* DialogueRunner::override_variable_storage
override_variable_storage(runner, storage) ==
    [runner EXCEPT !.variable_storage_override = Some(storage)]

\* DialogueRunner::override_text_provider
override_text_provider(runner, provider) ==
    [runner EXCEPT !.text_provider_override = Some(provider)]

\* DialogueRunner::override_asset_provider: provider is an Option.
override_asset_provider(runner, provider) ==
    [runner EXCEPT !.line_asset_provider_override = Some(provider)]

\* Mutant: a change of the compilation selects no runner.
RunnerSelected_OnlyNew(runner, compilation_changed) == IsNone(runner.dialogue)

\* set_dialogue_programs: the filter over the runners.
RunnerSelected(runner, compilation_changed) ==
    compilation_changed \/ IsNone(runner.dialogue)

\* Mutant: the global variable storage is taken before the override, and
\* the global line asset provider where the override holds no provider.
CreateDialogue_GlobalFirst(runner, variable_storage_global, text_provider_global, line_asset_provider_global) ==
    LET text_provider ==
            IF IsSome(runner.text_provider_override)
            THEN clone_shallow(Unwrap(runner.text_provider_override))
            ELSE clone_shallow(text_provider_global)
        variable_storage == clone_shallow(variable_storage_global)
        line_asset_provider ==
            IF IsSome(line_asset_provider_global)
            THEN Some(clone_shallow(Unwrap(line_asset_provider_global)))
            ELSE None
    IN  [runner EXCEPT
            !.line_asset_provider_override =
                IF IsNone(@) \/ @ = Some(None) THEN Some(line_asset_provider) ELSE @,
            !.dialogue = Some(DialogueNew(variable_storage, text_provider))]

\* set_dialogue_programs: the runner once it has been given a dialogue.
CreateDialogue(runner, variable_storage_global, text_provider_global, line_asset_provider_global) ==
    LET text_provider ==
            IF IsSome(runner.text_provider_override)
            THEN clone_shallow(Unwrap(runner.text_provider_override))
            ELSE clone_shallow(text_provider_global)
        variable_storage ==
            IF IsSome(runner.variable_storage_override)
            THEN clone_shallow(Unwrap(runner.variable_storage_override))
            ELSE clone_shallow(variable_storage_global)
        line_asset_provider ==
            IF IsSome(line_asset_provider_global)
            THEN Some(clone_shallow(Unwrap(line_asset_provider_global)))
            ELSE None
    IN  [runner EXCEPT
            !.line_asset_provider_override =
                IF IsNone(@) THEN Some(line_asset_provider) ELSE @,
            !.dialogue = Some(DialogueNew(variable_storage, text_provider))]

\* Mutant: the dialogue is made anew at every pass of the loop.
WithDialogue_Recreate(runner, variable_storage_global, text_provider_global, line_asset_provider_global) ==
    CreateDialogue(runner, variable_storage_global, text_provider_global,
                   line_asset_provider_global)

\* set_dialogue_programs: the dialogue of the runner, the one it has or a
\* new one.
WithDialogue(runner, variable_storage_global, text_provider_global, line_asset_provider_global) ==
    IF IsSome(runner.dialogue) THEN runner
    ELSE CreateDialogue(runner, variable_storage_global, text_provider_global,
                        line_asset_provider_global)

\* set_dialogue_programs: the last statement of the loop.
ProgramReplaced(runner, program) ==
    [runner EXCEPT !.dialogue = Some(replace_program(Unwrap(@), program))]

\* set_dialogue_programs.  Where the compilation has no program the unwrap
\* panics in the first pass of the loop, after the runner of that pass,
\* first, has been given its dialogue.
set_dialogue_programs(runners, variable_storage_global, text_provider_global, line_asset_provider_global, compilation, first) ==
    LET selected == {i \in DOMAIN runners :
                        RunnerSelected(runners[i], compilation.changed)}
    IN  IF selected = {} THEN [runners |-> runners, panic |-> FALSE]
        ELSE IF IsNone(compilation.program)
        THEN [ runners |-> [runners EXCEPT ![first] =
                               WithDialogue(@, variable_storage_global,
                                            text_provider_global,
                                            line_asset_provider_global)],
               panic |-> TRUE ]
        ELSE [ runners |->
                 [i \in DOMAIN runners |->
                    IF i \in selected
                    THEN ProgramReplaced(
                            WithDialogue(runners[i], variable_storage_global,
                                         text_provider_global,
                                         line_asset_provider_global),
                            Unwrap(compilation.program))
                    ELSE runners[i]],
               panic |-> FALSE ]

\* The programs of a compilation: none, or one of two.
Programs == {None, Some("P1"), Some("P2")}

VariableStorages == {"global_storage", "other_global_storage"}

\* The runners as they are built before they are spawned.
BuiltRunners ==
    { DialogueRunnerNew,
      override_text_provider(override_variable_storage(DialogueRunnerNew, "own_storage"),
                             "own_text"),
      override_asset_provider(DialogueRunnerNew, None),
      override_asset_provider(DialogueRunnerNew, Some("own_assets")) }

DrCall(op) == [op |-> op]

InitDialogue ==
    /\ dialogue_runners = <<>>
    /\ yarn_compilation \in [program : {None, Some("P1")}, changed : {TRUE}]
    /\ global_variable_storage = "global_storage"
    /\ global_text_provider = "global_text"
    /\ global_line_asset_provider \in {None, Some("global_assets")}
    /\ dr_call = DrCall("new")
    /\ dr_panicked = FALSE

\* The system runs; is_changed() is false until the compilation changes
\* again.
SetDialoguePrograms ==
    /\ ~dr_panicked
    /\ \E first \in {i \in DOMAIN dialogue_runners :
                        RunnerSelected(dialogue_runners[i], yarn_compilation.changed)}
                    \cup {0} :
          LET r == set_dialogue_programs(dialogue_runners, global_variable_storage,
                                         global_text_provider,
                                         global_line_asset_provider,
                                         yarn_compilation, first)
          IN  /\ first = 0 <=> ~r.panic
              /\ dialogue_runners' = r.runners
              /\ dr_panicked' = r.panic
    /\ yarn_compilation' = [yarn_compilation EXCEPT !.changed = FALSE]
    /\ dr_call' = DrCall("set_dialogue_programs")
    /\ UNCHANGED <<global_variable_storage, global_text_provider,
                   global_line_asset_provider, st_vars, tc_vars, tr_vars>>

\* A runner is spawned.
SpawnRunner ==
    /\ ~dr_panicked
    /\ Len(dialogue_runners) < MaxRunners
    /\ \E runner \in BuiltRunners : dialogue_runners' = Append(dialogue_runners, runner)
    /\ dr_call' = DrCall("spawn")
    /\ UNCHANGED <<yarn_compilation, global_variable_storage, global_text_provider,
                   global_line_asset_provider, dr_panicked, st_vars, tc_vars, tr_vars>>

\* The compilation is written to.
ChangeCompilation ==
    /\ ~dr_panicked
    /\ \E program \in Programs :
          yarn_compilation' = [program |-> program, changed |-> TRUE]
    /\ dr_call' = DrCall("change_compilation")
    /\ UNCHANGED <<dialogue_runners, global_variable_storage, global_text_provider,
                   global_line_asset_provider, dr_panicked, st_vars, tc_vars, tr_vars>>

\* The global variable storage is replaced by another.
ReplaceVariableStorage ==
    /\ ~dr_panicked
    /\ \E storage \in VariableStorages \ {global_variable_storage} :
          global_variable_storage' = storage
    /\ dr_call' = DrCall("replace_variable_storage")
    /\ UNCHANGED <<dialogue_runners, yarn_compilation, global_text_provider,
                   global_line_asset_provider, dr_panicked, st_vars, tc_vars, tr_vars>>

(***************************************************************************)
(* The specifications: of the string table and the combined compilation,   *)
(* of the type check of a file, of the tracking declarations, of the       *)
(* dialogue runners.                                                       *)
(***************************************************************************)
IdleVisitor ==
    /\ InitVisitor
    /\ existing_declarations = <<>>

IdleTracking ==
    /\ tracking_nodes = {}
    /\ known_variable_declarations = <<>>
    /\ derived_variable_declarations = <<>>
    /\ tracking_done = TRUE

IdleDialogue ==
    /\ InitDialogue
    /\ IsNone(yarn_compilation.program)
    /\ IsNone(global_line_asset_provider)

InitStrings == InitStringTable /\ IdleVisitor /\ IdleTracking /\ IdleDialogue

NextStrings == Insert \/ Extend \/ Combine

SpecStrings == InitStrings /\ [][NextStrings]_vars

InitTypeCheck == InitStringTable /\ InitVisitor /\ InitTrackingOne /\ IdleDialogue

NextTypeCheck ==
    \/ VisitNode
    \/ VisitVariable
    \/ VisitValueFunc
    \/ VisitValue
    \/ CheckOperation
    \/ AddTrackingDeclarations

SpecTypeCheck == InitTypeCheck /\ [][NextTypeCheck]_vars

InitTrackingDeclarations ==
    InitStringTable /\ IdleVisitor /\ InitTracking /\ IdleDialogue

NextTracking == AddTrackingDeclarations

SpecTracking == InitTrackingDeclarations /\ [][NextTracking]_vars

InitDialogueRunners == InitStringTable /\ IdleVisitor /\ IdleTracking /\ InitDialogue

NextDialogue ==
    \/ SetDialoguePrograms
    \/ SpawnRunner
    \/ ChangeCompilation
    \/ ReplaceVariableStorage

SpecDialogue == InitDialogueRunners /\ [][NextDialogue]_vars

(***************************************************************************)
(* Claims about the string table.                                          *)
(***************************************************************************)
InsertedImplicit == st_call.op = "insert" /\ IsNone(st_call.line_id)
InsertedExplicit == st_call.op = "insert" /\ IsSome(st_call.line_id)

\* C1: an insert without a line id stores the entry under
\* "line:<file_name>-<node_name>-<n>", file_name and node_name being those of
\* the inserted StringInfo and n the number of entries before the insert; the
\* stored entry has is_implicit_tag = TRUE and that key is the returned id.
\* The id is a function of these three values alone.
C1_ImplicitInsertKey ==
    [][ InsertedImplicit' =>
          LET info == Unwrap(st_call'.string_info)
              key == <<"l", "i", "n", "e", ":">> \o info.file_name \o <<"-">>
                         \o info.node_name \o <<"-">>
                         \o Decimal(Cardinality(DOMAIN string_table))
          IN  /\ st_ret' = Some(key)
              /\ key \in DOMAIN string_table'
              /\ string_table'[key].is_implicit_tag = TRUE
              /\ string_table'[key].file_name = info.file_name
              /\ string_table'[key].node_name = info.node_name ]_vars

\* An id-less insert into a table of two entries returned "line:b.y-m-2".
C1_Witness ==
    /\ InsertedImplicit
    /\ st_ret = Some(<<"l", "i", "n", "e", ":", "b", ".", "y", "-", "m", "-", "2">>)
    /\ TableLen(string_table) = 3

\* C2: an insert with an explicit line id stores the entry under exactly that
\* id and returns it; the stored entry has is_implicit_tag = FALSE whatever
\* the caller passed, and every other field is stored as passed.
C2_ExplicitInsert ==
    [][ InsertedExplicit' =>
          LET info == Unwrap(st_call'.string_info)
              id == Unwrap(st_call'.line_id)
          IN  /\ st_ret' = Some(id)
              /\ DOMAIN string_table' = DOMAIN string_table \cup {id}
              /\ string_table'[id].is_implicit_tag = FALSE
              /\ string_table'[id].text = info.text
              /\ string_table'[id].node_name = info.node_name
              /\ string_table'[id].line_number = info.line_number
              /\ string_table'[id].file_name = info.file_name
              /\ string_table'[id].metadata = info.metadata ]_vars

\* An explicit insert whose StringInfo came with is_implicit_tag = TRUE.
C2_Witness ==
    /\ InsertedExplicit
    /\ Unwrap(st_call.string_info).is_implicit_tag = TRUE
    /\ string_table[Unwrap(st_call.line_id)].is_implicit_tag = FALSE

\* C3 (as claimed): inserting an explicit id that is already a key of the
\* string table does not replace the entry the key holds.
C3_DuplicateKeepsFirst ==
    [][ (InsertedExplicit' /\ Unwrap(st_call'.line_id) \in DOMAIN string_table) =>
          string_table'[Unwrap(st_call'.line_id)]
              = string_table[Unwrap(st_call'.line_id)] ]_vars

\* C4: contains_implicit_string_tags() is TRUE exactly when an entry of the
\* table has is_implicit_tag = TRUE, and the flag of the Compilation that
\* combine returns is that predicate over the string_table it returns.
C4_ContainsImplicitTags ==
    /\ contains_implicit_string_tags(string_table)
          = (Cardinality({k \in DOMAIN string_table :
                             string_table[k].is_implicit_tag}) > 0)
    /\ IsSome(combined) =>
          Unwrap(combined).contains_implicit_string_tags
              = (Cardinality({k \in DOMAIN Unwrap(combined).string_table :
                     Unwrap(combined).string_table[k].is_implicit_tag}) > 0)

\* combine returned a non-empty table without implicit tags, although the
\* one per-file compilation it was given had its own flag set.
C4_Witness ==
    /\ IsSome(combined)
    /\ Unwrap(combined).string_table # EmptyTable
    /\ ~Unwrap(combined).contains_implicit_string_tags
    /\ Len(Unwrap(combined).declarations) = 1

\* C5 (as claimed): the file component of every implicit id is the file
\* name without its extension.
C5_FileWithoutExtension ==
    \A k \in DOMAIN string_table :
        string_table[k].is_implicit_tag =>
            \E n \in 0..TableLen(string_table) :
                k = <<"l", "i", "n", "e", ":">>
                        \o FileStem(string_table[k].file_name) \o <<"-">>
                        \o string_table[k].node_name \o <<"-">> \o Decimal(n)

\* C5 (amended): the file component of every implicit id is the file name
\* as the StringInfo holds it, extension included.
C5_FileNameAsStored ==
    \A k \in DOMAIN string_table :
        string_table[k].is_implicit_tag =>
            \E n \in 0..TableLen(string_table) :
                k = <<"l", "i", "n", "e", ":">>
                        \o string_table[k].file_name \o <<"-">>
                        \o string_table[k].node_name \o <<"-">> \o Decimal(n)

\* An implicit id was generated for a file name that has an extension.
C5_Witness ==
    /\ InsertedImplicit
    /\ Unwrap(st_call.string_info).file_name = <<"b", ".", "y">>
    /\ Unwrap(st_ret) \in DOMAIN string_table
    /\ string_table[Unwrap(st_ret)].is_implicit_tag

(***************************************************************************)
(* Claims about the type check and the tracking declarations.              *)
(***************************************************************************)
AllDeclarations == declarations(Visitor)

HasDeclaration(name) ==
    \E i \in DOMAIN AllDeclarations : AllDeclarations[i].name = name

\* C6: the declarations, the existing ones followed by the new ones, never
\* hold two declarations of one name.
C6_DeclarationNamesUnique ==
    \A i, j \in DOMAIN AllDeclarations :
        AllDeclarations[i].name = AllDeclarations[j].name => i = j

\* The VAR_IDs of the sources.
VarIds == {"$x", "$y", "$b", "$fv"}

\* The default value of a type: number 0, empty string, false.
DefaultOf(tag) ==
    CASE tag = "Number" -> Convertible("Number", "0")
      [] tag = "String" -> Convertible("String", "")
      [] tag = "Boolean" -> Convertible("Boolean", "false")

WellDefaulted(decl) ==
    /\ IsSome(decl.type)
    /\ Unwrap(decl.type).tag \in {"Number", "String", "Boolean"}
    /\ decl.default_value = Some(DefaultOf(Unwrap(decl.type).tag))

\* C7: every declaration of a variable among the new declarations of the
\* visitor, and every known or derived declaration of the compilation, has
\* the type of a number, a string or a boolean and the default value of that
\* type; so no variable is declared with no type or with a function type.
C7_DeclarationDefault ==
    /\ \A i \in DOMAIN new_declarations :
          new_declarations[i].name \in VarIds => WellDefaulted(new_declarations[i])
    /\ \A i \in DOMAIN known_variable_declarations :
          WellDefaulted(known_variable_declarations[i])
    /\ \A i \in DOMAIN derived_variable_declarations :
          WellDefaulted(derived_variable_declarations[i])

\* C7 witness: $x has been declared a string by an operation over a string,
\* and the tracking declaration of the node has been added.
C7_Witness ==
    /\ \E i \in DOMAIN new_declarations :
          /\ new_declarations[i].name = "$x"
          /\ new_declarations[i].type = Some(TypeString)
          /\ new_declarations[i].is_implicit
    /\ tracking_done
    /\ Len(derived_variable_declarations) = 1

\* C8: add_tracking_declarations appends to the known and to the derived
\* declarations the same declarations, as many as there are tracking nodes
\* and one for each node, each a number of default 0 described as "The
\* generated variable for tracking visits of node <n>"; the declarations
\* there before, the tracking nodes and all else stay as they were.
C8_TrackingDeclarations ==
    [][ ~tracking_done /\ tracking_done' =>
          LET n == Cardinality(tracking_nodes)
              known == known_variable_declarations
              derived == derived_variable_declarations
              added == SubSeq(known_variable_declarations', Len(known) + 1,
                              Len(known_variable_declarations'))
          IN  /\ Len(known_variable_declarations') = Len(known) + n
              /\ SubSeq(known_variable_declarations', 1, Len(known)) = known
              /\ Len(derived_variable_declarations') = Len(derived) + n
              /\ SubSeq(derived_variable_declarations', 1, Len(derived)) = derived
              /\ SubSeq(derived_variable_declarations', Len(derived) + 1,
                        Len(derived_variable_declarations')) = added
              /\ \A node \in tracking_nodes :
                    Cardinality({i \in DOMAIN added :
                        added[i].description =
                            "The generated variable for tracking visits of node "
                                \o node}) = 1
              /\ \A i \in DOMAIN added :
                    /\ added[i].type = Some(TypeNumber)
                    /\ added[i].default_value = Some(Convertible("Number", "0"))
              /\ tracking_nodes' = tracking_nodes
              /\ UNCHANGED <<st_vars, tc_vars, dr_vars>> ]_vars

\* C8 witness: three nodes were tracked in a compilation that had three
\* known declarations, two of them derived.
C8_Witness ==
    /\ tracking_done
    /\ Cardinality(tracking_nodes) = 3
    /\ Len(known_variable_declarations) = 6
    /\ Len(derived_variable_declarations) = 5

NoDuplicateDeferredNames ==
    \A i, j \in DOMAIN deferred_types :
        deferred_types[i].name = deferred_types[j].name => i = j

\* A visit of a node whose body holds references to variables and nothing
\* else.
OnlyVariablesVisited ==
    /\ tc_call'.op = "visit_node"
    /\ IsSome(tc_call'.input[1].body)
    /\ \A i \in DOMAIN Unwrap(tc_call'.input[1].body) :
          Unwrap(tc_call'.input[1].body)[i].kind = "ValueVar"

\* C9: deferred_types never holds two entries of one name; a visit of a
\* variable leaves diagnostics and new_declarations as they were, returns
\* the type of the declaration of its name when there is one and appends
\* nothing then, and otherwise returns None and appends a deferred
\* diagnostic of the name exactly when the name has none yet.
C9_VisitVariable ==
    /\ []NoDuplicateDeferredNames
    /\ [][ /\ OnlyVariablesVisited =>
              /\ diagnostics' = diagnostics
              /\ new_declarations' = new_declarations
           /\ tc_call'.op = "visit_variable" =>
              LET name == tc_call'.input[1].name
                  declaration == FindByName(AllDeclarations, name)
              IN  /\ diagnostics' = diagnostics
                  /\ new_declarations' = new_declarations
                  /\ IF name # "" /\ IsSome(declaration)
                     THEN /\ tc_ret' = Unwrap(declaration).type
                          /\ deferred_types' = deferred_types
                     ELSE /\ tc_ret' = None
                          /\ IF name = "" \/ IsDeferred(Visitor, name)
                             THEN deferred_types' = deferred_types
                             ELSE /\ Len(deferred_types') = Len(deferred_types) + 1
                                  /\ SubSeq(deferred_types', 1, Len(deferred_types))
                                        = deferred_types
                                  /\ deferred_types'[Len(deferred_types')].name = name
        ]_vars

\* C9 witness: the variable $x, deferred by the first visit of the file, has
\* been visited again and is deferred once.
C9_Witness ==
    /\ tc_call.op = "visit_variable"
    /\ tc_call.input[1].name = "$x"
    /\ cursor = 2
    /\ Len(deferred_types) = 1
    /\ deferred_types[1].name = "$x"
    /\ deferred_types[1].diagnostic.range[1] <= NodeSpan

\* C10: once a node has been visited, no name of deferred_types has a
\* declaration.
C10_DeferredResolved ==
    tc_call.op = "visit_node" =>
        \A i \in DOMAIN deferred_types : ~HasDeclaration(deferred_types[i].name)

(***************************************************************************)
(* Claims about the calls of functions.                                    *)
(***************************************************************************)
\* A step that visits a call, the call visited and the hint set for it.
CallStep == tc_call'.op = "visit_valueFunc" /\ cursor' = cursor + 1
CalledCtx == tc_call'.input[1].ctx
CalledHint == tc_call'.input[1].hint

\* The function type of the first declaration of a name.
DeclaredFunction(decls, name) == Unwrap(Unwrap(FindByName(decls, name)).type)

\* C11: the visit of a call of a function without a declaration adds to
\* new_declarations one implicit declaration of the function, with as many
\* parameters as the call has arguments, all None, and with the hint of the
\* call as its return type.
C11_ImplicitFunctionDeclaration ==
    [][ CallStep /\ ~HasDeclaration(CalledCtx.name) =>
          /\ Len(new_declarations') = Len(new_declarations) + 1
          /\ SubSeq(new_declarations', 1, Len(new_declarations)) = new_declarations
          /\ LET decl == new_declarations'[Len(new_declarations')]
             IN  /\ decl.name = CalledCtx.name
                 /\ decl.is_implicit
                 /\ IsSome(decl.type)
                 /\ Unwrap(decl.type).tag = "Function"
                 /\ Len(Unwrap(decl.type).parameters) = Len(CalledCtx.children)
                 /\ \A i \in DOMAIN Unwrap(decl.type).parameters :
                       IsNone(Unwrap(decl.type).parameters[i])
                 /\ Unwrap(decl.type).return_type = CalledHint
      ]_vars

\* C12: the visit of a call with a hint, of a function declared with no
\* return type, leaves the function declared with the hint as its return
\* type, and returns the hint.
C12_ReturnTypeFromHint ==
    [][ /\ CallStep
        /\ IsSome(CalledHint)
        /\ HasDeclaration(CalledCtx.name)
        /\ IsNone(DeclaredFunction(AllDeclarations, CalledCtx.name).return_type)
        => /\ DeclaredFunction(existing_declarations' \o new_declarations',
                               CalledCtx.name).return_type = CalledHint
           /\ tc_ret' = CalledHint
      ]_vars

\* The error of a call of f with m arguments where f has k parameters.
ArityMessage(f, k, m) ==
    "Function " \o f \o " expects " \o ToString(k)
        \o (IF k = 1 THEN " parameter" ELSE " parameters")
        \o ", but received " \o ToString(m)

\* The return type of a declared function once the hint of the call has
\* been taken for a return type that was not bound.
ReturnTypeWithHint(name, hint) ==
    IF IsNone(DeclaredFunction(AllDeclarations, name).return_type) /\ IsSome(hint)
    THEN hint
    ELSE DeclaredFunction(AllDeclarations, name).return_type

\* C13: the visit of a call with another number of arguments than the
\* declared function has parameters appends the one error "Function <f>
\* expects <k> parameter(s), but received <m>", visits no argument, returns
\* the return type of the function and does not panic; the visit of a call
\* of a function without a declaration appends no such error.
C13_ArityCheck ==
    [][ CallStep =>
          LET f == CalledCtx.name
              m == Len(CalledCtx.children)
              interval == get_hashable_interval(CalledCtx, Start)
          IN  IF HasDeclaration(f)
              THEN LET k == Len(DeclaredFunction(AllDeclarations, f).parameters)
                   IN  k # m =>
                         /\ ~panicked'
                         /\ Len(diagnostics') = Len(diagnostics) + 1
                         /\ SubSeq(diagnostics', 1, Len(diagnostics)) = diagnostics
                         /\ diagnostics'[Len(diagnostics')].message = ArityMessage(f, k, m)
                         /\ deferred_types' = deferred_types
                         /\ DOMAIN types' \subseteq DOMAIN types \cup {interval}
                         /\ tc_ret' = ReturnTypeWithHint(f, CalledHint)
              ELSE \A i \in DOMAIN diagnostics', k \in 0..3 :
                      i > Len(diagnostics) =>
                          diagnostics'[i].message # ArityMessage(f, k, m)
      ]_vars

\* C13 witness: f, of one parameter, has been called with two arguments, the
\* first of them an expression whose visit would panic.
C13_Witness ==
    /\ tc_call.op = "visit_valueFunc"
    /\ tc_call.input[1].ctx.name = "f"
    /\ Len(tc_call.input[1].ctx.children) = 2
    /\ ~panicked
    /\ Len(diagnostics) = 1
    /\ diagnostics[1].message = "Function f expects 1 parameter, but received 2"
    /\ tc_ret = Some(TypeBoolean)

\* The type of a literal.
LiteralType(ctx) ==
    CASE ctx.kind = "ValueNumber" -> Some(TypeNumber)
      [] ctx.kind = "ValueString" -> Some(TypeString)
      [] ctx.kind \in {"ValueTrue", "ValueFalse"} -> Some(TypeBoolean)

Literals == {"ValueNumber", "ValueString", "ValueTrue", "ValueFalse"}

\* C14: after the visit of a call of a declared function, a parameter that
\* had no type has, in the declaration of the function, the type of the
\* literal supplied for it.
C14_ParameterBinding ==
    [][ /\ CallStep
        /\ HasDeclaration(CalledCtx.name)
        /\ Len(DeclaredFunction(AllDeclarations, CalledCtx.name).parameters)
              = Len(CalledCtx.children)
        => \A i \in DOMAIN CalledCtx.children :
              /\ IsNone(DeclaredFunction(AllDeclarations, CalledCtx.name).parameters[i])
              /\ CalledCtx.children[i].kind \in Literals
              => DeclaredFunction(existing_declarations' \o new_declarations',
                                  CalledCtx.name).parameters[i]
                    = LiteralType(CalledCtx.children[i])
      ]_vars

\* The error of the i-th argument of a call of f, of type supplied where
\* the parameter has the type expected.
ParameterMessage(f, i, expected, supplied) ==
    f \o " parameter " \o ToString(i) \o " expects a " \o TypeFormat(expected)
        \o ", not a " \o TypeFormat(supplied)

\* The arguments of a call whose type is not a subtype of the type of their
\* parameter.
Offending(ctx, parameters) ==
    {i \in DOMAIN ctx.children :
        ~is_sub_type_of(LiteralType(ctx.children[i]), parameters[i])}

OperationStep == tc_call'.op = "check_operation" /\ cursor' = cursor + 1
Operation == tc_call'.input[1]
OperationTerms == Operation.context.children

\* The type a term resolves to before the call: the type of a literal, the
\* declared type of a variable, the return type of a declared function;
\* None for a variable or a function without a declaration.
TermType(term) ==
    IF term.kind \in Literals THEN LiteralType(term)
    ELSE IF ~HasDeclaration(term.name) THEN None
    ELSE IF term.kind = "ValueFunc" THEN DeclaredFunction(AllDeclarations, term.name).return_type
    ELSE Unwrap(FindByName(AllDeclarations, term.name)).type

\* The type of the first term that resolves to a type, None when no term
\* does.
FirstResolved(terms) ==
    IF \A i \in DOMAIN terms : IsNone(TermType(terms[i])) THEN None
    ELSE TermType(terms[CHOOSE i \in DOMAIN terms :
                            /\ IsSome(TermType(terms[i]))
                            /\ \A j \in 1..(i - 1) : IsNone(TermType(terms[j]))])

\* The expression type after the terms and the permitted types.
TypeFromTerms(terms, permitted_types) ==
    IF IsNone(FirstResolved(terms)) /\ Len(permitted_types) = 1
    THEN Some(permitted_types[1])
    ELSE FirstResolved(terms)

\* The terms that are variables without a declaration.
UndeclaredVariables(terms) ==
    {i \in DOMAIN terms :
        /\ terms[i].kind \in {"ValueVar", "Variable"}
        /\ terms[i].name # ""
        /\ ~HasDeclaration(terms[i].name)}

Primitive(type) ==
    IsSome(type) /\ Unwrap(type).tag \in {"Number", "String", "Boolean"}

\* The declarations added by the step that declare name.
AddedDeclarations(name) ==
    {i \in DOMAIN new_declarations' :
        i > Len(new_declarations) /\ new_declarations'[i].name = name}

ByMethodTable ==
    /\ OperationStep
    /\ IsNone(TypeFromTerms(OperationTerms, Operation.permitted_types))
    /\ IsSome(Operation.operation_type)

Implementing == TypesImplementingMethod(Unwrap(Operation.operation_type))

\* The two texts of the error of an expression whose type is not determined.
UndeterminedMessages(context, candidates) ==
    LET text == "Type of expression \"" \o get_text_with_whitespace(context)
                    \o "\" can't be determined without more context"
        cast == "Use a type cast on at least one of the terms (e.g. the string(), number(), bool() functions)"
    IN  { text \o ". " \o cast,
          text \o " (the compiler thinks it could be " \o TypeNames(candidates)
               \o "). " \o cast }

\* The terms that are calls of functions without a declaration: their visit
\* declares them, before the type of the expression is looked for.
UndeclaredCalls(terms) ==
    {i \in DOMAIN terms : terms[i].kind = "ValueFunc" /\ ~HasDeclaration(terms[i].name)}

\* C17: where the terms and the permitted types give no type and an operator
\* is named, one type implementing the operator is the type of the
\* expression (the undeclared variables among the terms are declared with
\* it); with several or no such type the call appends the one error "can't
\* be determined without more context" and returns None, declares no
\* variable and leaves the return type of every function as it was: the
\* declarations there were are unchanged, and the only ones added are those
\* the visit of the terms made for the calls of undeclared functions, their
\* return type not bound.
C17_MethodTable ==
    [][ ByMethodTable =>
          IF Len(Implementing) = 1
          THEN \A i \in UndeclaredVariables(OperationTerms) :
                  /\ AddedDeclarations(OperationTerms[i].name) # {}
                  /\ \A d \in AddedDeclarations(OperationTerms[i].name) :
                        new_declarations'[d].type = Some(Implementing[1])
          ELSE /\ ~panicked'
               /\ tc_ret' = None
               /\ Len(diagnostics') = Len(diagnostics) + 1
               /\ SubSeq(diagnostics', 1, Len(diagnostics)) = diagnostics
               /\ diagnostics'[Len(diagnostics')].message
                     \in UndeterminedMessages(Operation.context,
                                              IF Implementing = <<>>
                                              THEN <<TypeNumber>> ELSE Implementing)
               /\ existing_declarations' = existing_declarations
               /\ SubSeq(new_declarations', 1, Len(new_declarations)) = new_declarations
               /\ Len(new_declarations')
                     = Len(new_declarations) + Cardinality(UndeclaredCalls(OperationTerms))
               /\ \A d \in DOMAIN new_declarations' :
                     d > Len(new_declarations) =>
                        /\ \E i \in UndeclaredCalls(OperationTerms) :
                              new_declarations'[d].name = OperationTerms[i].name
                        /\ IsNone(Unwrap(new_declarations'[d].type).return_type)
      ]_vars

\* C17 witness: $x + $y has been checked with neither variable declared;
\* the error is the last diagnostic and nothing is declared.
C17_Witness ==
    /\ tc_call.op = "check_operation"
    /\ tc_call.input[1].context.name = "+"
    /\ tc_call.input[1].context.children = <<Var("$x"), Var("$y")>>
    /\ ~panicked
    /\ tc_ret = None
    /\ diagnostics # <<>>
    /\ diagnostics[Len(diagnostics)].message
          \in UndeterminedMessages(tc_call.input[1].context, <<TypeNumber, TypeString>>)
    /\ \A i \in DOMAIN new_declarations : new_declarations[i].name \notin {"$x", "$y"}

\* C17 witness of the one implementing type: $x && $y has been checked and
\* $x is declared a boolean.
C17_WitnessOne ==
    /\ tc_call.op = "check_operation"
    /\ tc_call.input[1].context.name = "&&"
    /\ \E i \in DOMAIN new_declarations :
          /\ new_declarations[i].name = "$x"
          /\ new_declarations[i].type = Some(TypeBoolean)

\* The type of the expression that the terms, the permitted types and the
\* types implementing the operator give; None where they give none.
ExpressionType ==
    IF IsSome(TypeFromTerms(OperationTerms, Operation.permitted_types))
    THEN TypeFromTerms(OperationTerms, Operation.permitted_types)
    ELSE IF IsSome(Operation.operation_type) /\ Len(Implementing) = 1
    THEN Some(Implementing[1])
    ELSE None

\* The terms that are calls of functions.
CallTerms(terms) == {i \in DOMAIN terms : terms[i].kind = "ValueFunc"}

\* The return type of the function of a call before the return types are
\* bound: that of its declaration, None for the declaration that the visit
\* of a call of an undeclared function makes.
ReturnTypeBefore(name) ==
    IF HasDeclaration(name)
    THEN DeclaredFunction(AllDeclarations, name).return_type
    ELSE None

\* C18: once the type of the expression is determined, the function of
\* every call among the terms has that type for its return type where the
\* return type was not bound, and the return type it had where it was.
C18_FunctionReturnBound ==
    [][ OperationStep /\ IsSome(ExpressionType)
        => \A i \in CallTerms(OperationTerms) :
              DeclaredFunction(existing_declarations' \o new_declarations',
                               OperationTerms[i].name).return_type
                 = IF IsNone(ReturnTypeBefore(OperationTerms[i].name))
                   THEN ExpressionType
                   ELSE ReturnTypeBefore(OperationTerms[i].name)
      ]_vars

\* The call reaches the loop that declares the variables: the type of the
\* expression is determined, or no operator is named.
DeclaringReached ==
    OperationStep /\ (IsSome(ExpressionType) \/ IsNone(Operation.operation_type))

\* The diagnostics added by the step that say the type of the variable name
\* cannot be figured out.
AddedTypeErrors(name) ==
    {i \in DOMAIN diagnostics' :
        /\ i > Len(diagnostics)
        /\ diagnostics'[i].message
              = "Can't figure out the type of variable " \o name
                  \o " given its context. Specify its type with a <<declare>> statement."}

\* The terms that refer to the variable name, where it has no declaration.
UndeclaredReferences(name) ==
    {i \in UndeclaredVariables(OperationTerms) : OperationTerms[i].name = name}

\* C19: where check_operation comes to declare the variables, every term
\* that refers to a variable without a declaration causes, where the type
\* of the expression is a number, a string or a boolean, one implicit
\* declaration of the variable with that type, its default value, the
\* source file and the name of the current node, and no error; where the
\* expression has no type or the type of a function, no declaration and one
\* error "Can't figure out the type of variable <name> ...".  A variable
\* that has a declaration causes neither.
C19_ImplicitVariableDeclarations ==
    [][ DeclaringReached =>
          \A name \in VarIds :
             IF Primitive(ExpressionType)
             THEN /\ Cardinality(AddedDeclarations(name))
                        = Cardinality(UndeclaredReferences(name))
                  /\ AddedTypeErrors(name) = {}
                  /\ \A d \in AddedDeclarations(name) :
                        /\ new_declarations'[d].type = ExpressionType
                        /\ new_declarations'[d].default_value
                              = Some(DefaultOf(Unwrap(ExpressionType).tag))
                        /\ new_declarations'[d].is_implicit
                        /\ new_declarations'[d].source_file_name = Some(source_file_name)
                        /\ new_declarations'[d].source_node_name = current_node_name
             ELSE /\ AddedDeclarations(name) = {}
                  /\ Cardinality(AddedTypeErrors(name))
                        = Cardinality(UndeclaredReferences(name))
      ]_vars

\* C19 witness: in node Start, $x == $b has been checked with $b declared
\* a boolean; $x is declared a boolean of node Start and $b is not declared
\* again.
C19_Witness ==
    /\ tc_call.op = "check_operation"
    /\ tc_call.input[1].context.children = <<Var("$x"), Var("$b")>>
    /\ \E i \in DOMAIN existing_declarations : existing_declarations[i].name = "$b"
    /\ \A i \in DOMAIN new_declarations : new_declarations[i].name # "$b"
    /\ \E i \in DOMAIN new_declarations :
          /\ new_declarations[i].name = "$x"
          /\ new_declarations[i].type = Some(TypeBoolean)
          /\ new_declarations[i].default_value = Some(Convertible("Boolean", "false"))
          /\ new_declarations[i].is_implicit
          /\ new_declarations[i].source_node_name = Some("Start")

\* The expression true && false.
TrueAndFalse == AndOrXor(Value("ValueTrue", "true"), "&&", Value("ValueFalse", "false"))

\* A step that visits a node whose body is the one expression true && false.
TrueAndFalseVisited ==
    /\ tc_call'.op = "visit_node"
    /\ cursor' = cursor + 1
    /\ tc_call'.input[1].body = Some(<<TrueAndFalse>>)

\* C20: a call of check_operation that determines the type of the
\* expression ends without a panic and returns that type; the visit of
\* true && false ends without a panic and records the type of a boolean for
\* the interval of the expression.
C20_ReturnsExpressionType ==
    [][ /\ OperationStep /\ IsSome(ExpressionType)
           => ~panicked' /\ tc_ret' = ExpressionType
        /\ TrueAndFalseVisited
           => /\ ~panicked'
              /\ get_hashable_interval(TrueAndFalse, Start) \in DOMAIN types'
              /\ types'[get_hashable_interval(TrueAndFalse, Start)] = TypeBoolean
      ]_vars

\* The terms that resolve to a type that is not a subtype of the type of
\* the expression.
DisagreeingTerms ==
    {i \in DOMAIN OperationTerms :
        /\ IsSome(TermType(OperationTerms[i]))
        /\ ~is_sub_type_of(TermType(OperationTerms[i]), ExpressionType)}

\* C21: a call of check_operation that determines the type of the
\* expression appends an error for every term whose type is not a subtype
\* of it: at least as many diagnostics as there are such terms.
C21_OperandAgreement ==
    [][ OperationStep /\ IsSome(ExpressionType)
        => Len(diagnostics') >= Len(diagnostics) + Cardinality(DisagreeingTerms)
      ]_vars

(***************************************************************************)
(* Claims about the statements and the literals.                           *)
(***************************************************************************)
\* The statement <<set $x = 1 + 2>>.
SetSum ==
    Ctx("SetStatement", "set",
        << Ctx("Variable", "$x", <<>>),
           Ctx("ExpAddSub", "+", <<Value("ValueNumber", "1"), Value("ValueNumber", "2")>>) >>)

\* A step that visits a node whose body is the one statement.
SetSumVisited ==
    /\ tc_call'.op = "visit_node"
    /\ cursor' = cursor + 1
    /\ tc_call'.input[1].body = Some(<<SetSum>>)

\* C22: the visit of <<set $x = 1 + 2>>, $x having no declaration, ends
\* without a panic, appends no diagnostic and adds one declaration: $x,
\* implicit, a number of default 0.
C22_SetStatement ==
    [][ SetSumVisited /\ ~HasDeclaration("$x")
        => /\ ~panicked'
           /\ diagnostics' = diagnostics
           /\ Len(new_declarations') = Len(new_declarations) + 1
           /\ SubSeq(new_declarations', 1, Len(new_declarations)) = new_declarations
           /\ LET decl == new_declarations'[Len(new_declarations')]
              IN  /\ decl.name = "$x"
                  /\ decl.type = Some(TypeNumber)
                  /\ decl.default_value = Some(Convertible("Number", "0"))
                  /\ decl.is_implicit
      ]_vars

\* A step that visits a literal, and the literal.
ValueStep == tc_call'.op = "visit_value" /\ cursor' = cursor + 1
VisitedValue == tc_call'.input[1]

\* The type of a literal by its kind: a number, a string, a boolean for
\* true and for false.
TypeOfLiteral(kind) ==
    CASE kind = "ValueNumber" -> TypeNumber
      [] kind = "ValueString" -> TypeString
      [] kind \in {"ValueTrue", "ValueFalse"} -> TypeBoolean

\* C23: the visit of a number, a string, true or false returns the type of
\* the literal and appends no diagnostic and no declaration; the visit of
\* null returns no type, appends no declaration and appends the one
\* diagnostic "Null is not a permitted type in Yarn Spinner 2.0 and later"
\* of the source file of the visitor.
C23_LeafTyping ==
    [][ ValueStep =>
          /\ ~panicked'
          /\ new_declarations' = new_declarations
          /\ existing_declarations' = existing_declarations
          /\ IF VisitedValue.kind = "ValueNull"
             THEN /\ tc_ret' = None
                  /\ Len(diagnostics') = Len(diagnostics) + 1
                  /\ SubSeq(diagnostics', 1, Len(diagnostics)) = diagnostics
                  /\ diagnostics'[Len(diagnostics')].message
                        = "Null is not a permitted type in Yarn Spinner 2.0 and later"
                  /\ diagnostics'[Len(diagnostics')].file_name = source_file_name
             ELSE /\ tc_ret' = Some(TypeOfLiteral(VisitedValue.kind))
                  /\ diagnostics' = diagnostics
      ]_vars

\* C23 witness: null has been visited after another literal, and the
\* diagnostic of null is the only one.
C23_Witness ==
    /\ tc_call.op = "visit_value"
    /\ tc_call.input[1].kind = "ValueNull"
    /\ cursor = 2
    /\ tc_ret = None
    /\ Len(diagnostics) = 1
    /\ diagnostics[1].message = "Null is not a permitted type in Yarn Spinner 2.0 and later"
    /\ diagnostics[1].file_name = <<"dir", "a.yarn">>

(***************************************************************************)
(* Claims about Compilation::combine and about the size of the table.      *)
(***************************************************************************)
\* A step in which combine returns, and the compilations it was given.
CombineStep == st_call'.op = "combine" /\ IsNone(combined) /\ IsSome(combined')
Combined == Unwrap(combined')
Inputs == st_call'.compilations

\* The sequences of a field of the inputs, one after the other.
RECURSIVE InOrder(_, _, _)
InOrder(inputs, field, i) ==
    IF i > Len(inputs) THEN <<>>
    ELSE inputs[i][field] \o InOrder(inputs, field, i + 1)

\* The last of the inputs whose map of the field holds the key.
LastWith(inputs, field, key) ==
    CHOOSE i \in DOMAIN inputs :
        /\ key \in DOMAIN inputs[i][field]
        /\ \A j \in DOMAIN inputs : key \in DOMAIN inputs[j][field] => j <= i

\* map is the union of the maps of a field of the inputs, a later input
\* winning on a key.
UnionOf(map, inputs, field) ==
    /\ DOMAIN map = UNION {DOMAIN inputs[i][field] : i \in DOMAIN inputs}
    /\ \A key \in DOMAIN map :
          map[key] = inputs[LastWith(inputs, field, key)][field][key]

\* The programs of the inputs, node after node.
RECURSIVE ProgramsInOrder(_, _)
ProgramsInOrder(inputs, i) ==
    IF i > Len(inputs) THEN <<>>
    ELSE Unwrap(inputs[i].program) \o ProgramsInOrder(inputs, i + 1)

\* C24: the compilation combine returns has the declarations of the inputs
\* in the order of the inputs, their warnings in that order, for file_tags
\* and for debug_info the union of the maps of the inputs with the later
\* input winning on a key, for its program the programs of the inputs in
\* that order, and for string_table the table of the manager.
C24_CombineInOrder ==
    [][ CombineStep =>
          /\ Combined.declarations = InOrder(Inputs, "declarations", 1)
          /\ Combined.warnings = InOrder(Inputs, "warnings", 1)
          /\ UnionOf(Combined.file_tags, Inputs, "file_tags")
          /\ UnionOf(Combined.debug_info, Inputs, "debug_info")
          /\ Inputs # <<>> => Combined.program = Some(ProgramsInOrder(Inputs, 1))
          /\ Combined.string_table = string_table
      ]_vars

\* C24 witness: combine has been given the compilation of a.yarn with tag1
\* and then another of a.yarn with tag2, the table holding an entry.
C24_Witness ==
    /\ IsSome(combined)
    /\ st_call.compilations = <<FileCompilationA, FileCompilationB>>
    /\ Unwrap(combined).declarations = <<"decl_x", "decl_y", "decl_x">>
    /\ Unwrap(combined).warnings = <<"warn1", "warn2", "warn1">>
    /\ Unwrap(combined).file_tags["a.yarn"] = <<"tag2">>
    /\ Unwrap(combined).debug_info["Start"] = "debugB"
    /\ Unwrap(combined).program = Some(<<"Start", "End">>)
    /\ Unwrap(combined).string_table # EmptyTable

\* A step that inserts a string without a line id.
ImplicitInsertStep ==
    /\ st_call'.op = "insert"
    /\ IsNone(st_call'.line_id)
    /\ IsSome(st_call'.string_info)
    /\ IsNone(combined')
    /\ st_ret' \in {Some(k) : k \in DOMAIN string_table'}

\* C25: an insert without a line id makes the table larger by one entry and
\* leaves every entry there was as it was.
C25_ImplicitInsertAdds ==
    [][ ImplicitInsertStep =>
          /\ TableLen(string_table') = TableLen(string_table) + 1
          /\ \A k \in DOMAIN string_table :
                k \in DOMAIN string_table' /\ string_table'[k] = string_table[k]
      ]_vars

(***************************************************************************)
(* Claims about the visits that check_operation and visit_node make.       *)
(***************************************************************************)
\* The diagnostics that the step appends.
AddedDiagnostics == {i \in DOMAIN diagnostics' : i > Len(diagnostics)}

\* The terms that call a declared function with another number of
\* arguments than it has parameters.
ArityErrors ==
    {i \in CallTerms(OperationTerms) :
        /\ HasDeclaration(OperationTerms[i].name)
        /\ Len(DeclaredFunction(AllDeclarations, OperationTerms[i].name).parameters)
              # Len(OperationTerms[i].children)}

\* C26: a call of check_operation appends no diagnostic twice, and for a
\* term that calls a declared function with the wrong number of arguments
\* it appends the error of the call once.
C26_TermReportedOnce ==
    [][ OperationStep =>
          /\ \A i, j \in AddedDiagnostics :
                diagnostics'[i] = diagnostics'[j] => i = j
          /\ \A t \in ArityErrors :
                Cardinality({i \in AddedDiagnostics :
                    diagnostics'[i].message
                       = ArityMessage(OperationTerms[t].name,
                            Len(DeclaredFunction(AllDeclarations,
                                                 OperationTerms[t].name).parameters),
                            Len(OperationTerms[t].children))}) = 1
      ]_vars

\* A step that visits a node, and the node.
NodeStep == tc_call'.op = "visit_node" /\ cursor' = cursor + 1
VisitedNode == tc_call'.input[1]

\* The declarations of variables that the step appends.
AddedVariableDeclarations ==
    {i \in DOMAIN new_declarations' :
        i > Len(new_declarations) /\ new_declarations'[i].name \in VarIds}

\* The description of a variable declared implicitly in a node of a.yarn.
ImplicitDescription(title) ==
    IF IsSome(title)
    THEN "Implicitly declared in a.yarn, node " \o Unwrap(title)
    ELSE "Implicitly declared in a.yarn"

\* C27: the variables that the visit of a node declares have the title of
\* that node for their source_node_name and in their description, and no
\* node name where the node has no title.
C27_NodeOfDeclaration ==
    [][ NodeStep =>
          \A i \in AddedVariableDeclarations :
             /\ new_declarations'[i].source_node_name = VisitedNode.title
             /\ new_declarations'[i].description = ImplicitDescription(VisitedNode.title)
      ]_vars

(***************************************************************************)
(* Claims about the dialogue runners.                                      *)
(***************************************************************************)
\* A step in which set_dialogue_programs runs.
RunStep == dr_call'.op = "set_dialogue_programs"

\* The runner has a dialogue that holds the program, and a line asset
\* provider override.
Initialised(runner, program) ==
    /\ IsSome(runner.dialogue)
    /\ IsSome(runner.line_asset_provider_override)
    /\ Unwrap(runner.dialogue).program = program

\* C28: a run of set_dialogue_programs with a compilation that has a
\* program leaves every runner with a dialogue that holds that program and
\* with a line asset provider override, the runners spawned since the last
\* run included; and from then on a runner that has a dialogue has the
\* override, and holds the program of the compilation until the compilation
\* is written to again.
C28_RunnersInitialised ==
    /\ [][ RunStep /\ IsSome(yarn_compilation.program)
           => /\ ~dr_panicked'
              /\ \A i \in DOMAIN dialogue_runners' :
                    Initialised(dialogue_runners'[i], yarn_compilation.program)
         ]_vars
    /\ [](~dr_panicked =>
             \A i \in DOMAIN dialogue_runners :
                IsSome(dialogue_runners[i].dialogue) =>
                   /\ IsSome(dialogue_runners[i].line_asset_provider_override)
                   /\ ~yarn_compilation.changed =>
                         Initialised(dialogue_runners[i], yarn_compilation.program))

\* C28 witness: two runners hold the program P2 after a run; the dialogue of
\* the first has the variable storage that was global at an earlier run, the
\* dialogue of the second the one that is global now.
C28_Witness ==
    /\ dr_call.op = "set_dialogue_programs"
    /\ ~dr_panicked
    /\ Len(dialogue_runners) = 2
    /\ \A i \in DOMAIN dialogue_runners :
          Initialised(dialogue_runners[i], Some("P2"))
    /\ global_variable_storage = "other_global_storage"
    /\ Unwrap(dialogue_runners[1].dialogue).variable_storage = "global_storage"
    /\ Unwrap(dialogue_runners[2].dialogue).variable_storage = "other_global_storage"

\* The three override fields of a runner.
Overrides(runner) ==
    <<runner.variable_storage_override, runner.text_provider_override,
      runner.line_asset_provider_override>>

\* C29: a run of set_dialogue_programs leaves a runner that has a dialogue
\* as it is where the compilation has not changed; where it has, the
\* dialogue has the program of the compilation afterwards and the variable
\* storage and the text provider it had, and the overrides of the runner are
\* what they were.
C29_InitialisedRunnerKept ==
    [][ RunStep =>
          \A i \in DOMAIN dialogue_runners :
             IsSome(dialogue_runners[i].dialogue) =>
                IF ~yarn_compilation.changed
                THEN dialogue_runners'[i] = dialogue_runners[i]
                ELSE /\ Overrides(dialogue_runners'[i]) = Overrides(dialogue_runners[i])
                     /\ IsSome(dialogue_runners'[i].dialogue)
                     /\ Unwrap(dialogue_runners'[i].dialogue).variable_storage
                           = Unwrap(dialogue_runners[i].dialogue).variable_storage
                     /\ Unwrap(dialogue_runners'[i].dialogue).text_provider
                           = Unwrap(dialogue_runners[i].dialogue).text_provider
                     /\ IsSome(yarn_compilation.program) =>
                           Unwrap(dialogue_runners'[i].dialogue).program
                              = yarn_compilation.program
      ]_vars

\* C29 witness: after the global variable storage was replaced and the
\* compilation changed, a run has given the runner the program P2 and left
\* its dialogue the variable storage it had.
C29_Witness ==
    /\ dr_call.op = "set_dialogue_programs"
    /\ ~dr_panicked
    /\ Len(dialogue_runners) = 1
    /\ dialogue_runners[1].variable_storage_override = None
    /\ IsSome(dialogue_runners[1].dialogue)
    /\ Unwrap(dialogue_runners[1].dialogue).program = Some("P2")
    /\ Unwrap(dialogue_runners[1].dialogue).variable_storage = "global_storage"
    /\ global_variable_storage = "other_global_storage"

\* The override where there is one, the global value otherwise.
Preferred(override, global) == IF IsSome(override) THEN Unwrap(override) ELSE global

\* C30: the dialogue that a run of set_dialogue_programs makes for a runner
\* has the variable storage of the override of the runner where it has one
\* and the global one otherwise, and so for the text provider; the line
\* asset provider override of the runner is what it was where it was set,
\* be it to no provider, and the global line asset provider otherwise.
C30_OverridePrecedence ==
    [][ RunStep =>
          \A i \in DOMAIN dialogue_runners :
             IsNone(dialogue_runners[i].dialogue)
             /\ IsSome(dialogue_runners'[i].dialogue) =>
                /\ Unwrap(dialogue_runners'[i].dialogue).variable_storage
                      = Preferred(dialogue_runners[i].variable_storage_override,
                                  global_variable_storage)
                /\ Unwrap(dialogue_runners'[i].dialogue).text_provider
                      = Preferred(dialogue_runners[i].text_provider_override,
                                  global_text_provider)
                /\ dialogue_runners'[i].line_asset_provider_override
                      = IF IsSome(dialogue_runners[i].line_asset_provider_override)
                        THEN dialogue_runners[i].line_asset_provider_override
                        ELSE Some(global_line_asset_provider)
                /\ dialogue_runners'[i].variable_storage_override
                      = dialogue_runners[i].variable_storage_override
                /\ dialogue_runners'[i].text_provider_override
                      = dialogue_runners[i].text_provider_override
      ]_vars

\* C30 witness: there is a global line asset provider; a runner built with
\* override_asset_provider(None) has its dialogue and no provider, a runner
\* with its own storage and text provider has them in its dialogue and the
\* global line asset provider.
C30_Witness ==
    /\ dr_call.op = "set_dialogue_programs"
    /\ ~dr_panicked
    /\ global_line_asset_provider = Some("global_assets")
    /\ Len(dialogue_runners) = 2
    /\ IsSome(dialogue_runners[1].dialogue)
    /\ dialogue_runners[1].line_asset_provider_override = Some(None)
    /\ Unwrap(dialogue_runners[1].dialogue).variable_storage = global_variable_storage
    /\ IsSome(dialogue_runners[2].dialogue)
    /\ Unwrap(dialogue_runners[2].dialogue).variable_storage = "own_storage"
    /\ Unwrap(dialogue_runners[2].dialogue).text_provider = "own_text"
    /\ dialogue_runners[2].line_asset_provider_override = Some(Some("global_assets"))

====
